---- MODULE Spec2Model ----
(***************************************************************************)
(* A model of the matrix and vector objects that main() of gonum.go and    *)
(* gonum_output_as_comments.go builds with gonum.org/v1/gonum/mat, and of  *)
(* the operations main() calls on them.  Each operator carries the name of *)
(* the mat function or method it models and follows what that call does to *)
(* the object's backing slice; the expected results are the outputs that   *)
(* the source records in the comment after each call.                      *)
(*                                                                         *)
(* float64 values are modelled by integers: every value the claims below   *)
(* read is an integer, and the sums, differences and products taken of    *)
(* them are exact on integers of this size.                                *)
(***************************************************************************)
EXTENDS Integers, Sequences, FiniteSets, TLC

VARIABLES
    heap,    \* the backing arrays of all []float64 slices, by array id
    v,       \* the vector v of main (a *mat.VecDense)
    w,       \* the slice view w taken from v
    wfrom,   \* the index of v at which w starts (sum of the start bounds used)
    s,       \* the symmetric matrix s of main (a *mat.SymDense)
    d3,      \* the diagonal matrix d3 of main (a *mat.DiagDense)
    t3,      \* the triangular matrix t3 of main (a *mat.TriDense)
    inp,     \* the arguments the caller has chosen for the constructors
    m2,      \* the first operand (main: m2, v1, m, m5, dense4)
    m3,      \* the second operand (main: m3 := m2.T(), v2, v4)
    rcv,     \* the receiver of the operations (main: c, d, e, v, v5)
    res,     \* the value the last call returned
    nops,    \* the number of calls made that wrote into the receiver
    call,    \* the last library call made: its name and arguments
    err,     \* how the last call ended: "none" or the panic it raised
    pc,      \* main: the index of the next statement to execute
    env,     \* main: the local variables declared so far and what they hold
    out,     \* main: the lines written to standard output
    deferred,    \* main: the recovery handler has been registered (defer)
    status,      \* main: "running", "panicking", "returned" or "crashed"
    handled,     \* main: the number of times the deferred handler has run
    uncommented  \* main: which of the two commented-out calls is enabled

\* the variables of a run of main
mainVars == <<pc, env, out, deferred, status, handled, uncommented>>

vars == <<heap, v, w, wfrom, s, d3, t3, inp, m2, m3, rcv, res, nops, call, err, mainVars>>

\* the variables of the operand and receiver objects
algVars == <<inp, m2, m3, rcv, res, nops>>

\* the variables of the vector, symmetric, diagonal and triangular objects
objVars == <<v, w, wfrom, s, d3, t3>>

(***************************************************************************)
(* Go slices.  A slice is a window [off, off+len) of a backing array that  *)
(* may grow up to cap; slicing shares the array.                           *)
(***************************************************************************)
NoErr == "none"

nilSlice == [arr |-> 0, off |-> 0, len |-> 0, cap |-> 0]

\* []float64{...}: a fresh backing array holding the literal.
Alloc(h, data) == Append(h, data)

SliceOf(h, data) == [arr |-> Len(h) + 1, off |-> 0, len |-> Len(data), cap |-> Len(data)]

Zeros(n) == [k \in 1..n |-> 0]

\* sl[i] for 0 <= i < len(sl)
Load(h, sl, i) == h[sl.arr][sl.off + i + 1]

\* sl[i] = x
Store(h, sl, i, x) == [h EXCEPT ![sl.arr][sl.off + i + 1] = x]

\* sl[lo:hi], legal in Go for 0 <= lo <= hi <= cap(sl)
SubSlice(sl, lo, hi) == [arr |-> sl.arr, off |-> sl.off + lo, len |-> hi - lo, cap |-> sl.cap - lo]

(***************************************************************************)
(* mat.VecDense: blas64.Vector{N, Inc, Data}.                              *)
(***************************************************************************)
\* mat.NewVecDense(n, data); data = nilSlice stands for a nil initializer.
\* The given slice becomes the backing data (it is not copied).
NewVecDense(h, n, data) ==
    IF n <= 0 THEN [err |-> IF n = 0 THEN "ErrZeroLength" ELSE "ErrNegativeDimension", h |-> h, vec |-> <<>>]
    ELSE IF data # nilSlice /\ data.len # n THEN [err |-> "ErrShape", h |-> h, vec |-> <<>>]
    ELSE IF data = nilSlice
         THEN [err |-> NoErr, h |-> Alloc(h, Zeros(n)),
               vec |-> [kind |-> "VecDense", N |-> n, Inc |-> 1, Data |-> SliceOf(h, Zeros(n))]]
         ELSE [err |-> NoErr, h |-> h,
               vec |-> [kind |-> "VecDense", N |-> n, Inc |-> 1, Data |-> data]]

\* (*VecDense).Len
LenVec(x) == x.N

\* (*VecDense).Cap
Cap(x) == IF x.N = 0 THEN 0 ELSE ((x.Data.cap - 1) \div x.Inc) + 1

\* (*VecDense).AtVec(i)
AtVec(h, x, i) ==
    IF i < 0 \/ i >= x.N THEN [err |-> "ErrRowAccess", val |-> 0]
    ELSE [err |-> NoErr, val |-> Load(h, x.Data, i * x.Inc)]

\* (*VecDense).SetVec(i, val)
SetVec(h, x, i, val) ==
    IF i < 0 \/ i >= x.N THEN [err |-> "ErrRowAccess", h |-> h]
    ELSE [err |-> NoErr, h |-> Store(h, x.Data, i * x.Inc, val)]

\* A SliceVec that copies the selected elements instead of sharing them.
SliceVecCopy(h, x, i, k) ==
    IF i < 0 \/ k <= i \/ Cap(x) < k THEN [err |-> "ErrIndexOutOfRange", h |-> h, vec |-> x]
    ELSE LET data == [j \in 1..(k - i) |-> Load(h, x.Data, (i + j - 1) * x.Inc)]
         IN  [err |-> NoErr, h |-> Alloc(h, data),
              vec |-> [kind |-> "VecDense", N |-> k - i, Inc |-> 1, Data |-> SliceOf(h, data)]]

\* A SliceVec that refuses a view reaching the last element.
SliceVecStrictEnd(h, x, i, k) ==
    IF i < 0 \/ k <= i \/ Cap(x) <= k THEN [err |-> "ErrIndexOutOfRange", h |-> h, vec |-> x]
    ELSE [err |-> NoErr, h |-> h,
          vec |-> [kind |-> "VecDense", N |-> k - i, Inc |-> x.Inc,
                   Data |-> SubSlice(x.Data, i * x.Inc, (k - 1) * x.Inc + 1)]]

\* A SliceVec that counts a negative k back from the end of the vector.
SliceVecFromEnd(h, x, i, k) ==
    LET e == IF k < 0 THEN x.N + k ELSE k
    IN  IF i < 0 \/ e <= i \/ Cap(x) < e THEN [err |-> "ErrIndexOutOfRange", h |-> h, vec |-> x]
        ELSE [err |-> NoErr, h |-> h,
              vec |-> [kind |-> "VecDense", N |-> e - i, Inc |-> x.Inc,
                       Data |-> SubSlice(x.Data, i * x.Inc, (e - 1) * x.Inc + 1)]]

\* A SliceVec that starts its view at the first element whatever i is.
SliceVecFromZero(h, x, i, k) ==
    IF i < 0 \/ k <= i \/ Cap(x) < k THEN [err |-> "ErrIndexOutOfRange", h |-> h, vec |-> x]
    ELSE [err |-> NoErr, h |-> h,
          vec |-> [kind |-> "VecDense", N |-> k - i, Inc |-> x.Inc,
                   Data |-> SubSlice(x.Data, 0, (k - i - 1) * x.Inc + 1)]]

\* (*VecDense).SliceVec(i, k): a view of elements i..k-1 sharing x's data.
SliceVec(h, x, i, k) ==
    IF i < 0 \/ k <= i \/ Cap(x) < k THEN [err |-> "ErrIndexOutOfRange", h |-> h, vec |-> x]
    ELSE [err |-> NoErr, h |-> h,
          vec |-> [kind |-> "VecDense", N |-> k - i, Inc |-> x.Inc,
                   Data |-> SubSlice(x.Data, i * x.Inc, (k - 1) * x.Inc + 1)]]

(***************************************************************************)
(* mat.SymDense: blas64.Symmetric{N, Stride, Data, Uplo: blas.Upper}.      *)
(* All n*n values are kept in Data; only the upper triangle is ever read   *)
(* or written.                                                             *)
(***************************************************************************)
\* mat.NewSymDense(n, data)
NewSymDense(h, n, data) ==
    IF n <= 0 THEN [err |-> IF n = 0 THEN "ErrZeroLength" ELSE "ErrNegativeDimension", h |-> h, m |-> <<>>]
    ELSE IF data # nilSlice /\ data.len # n * n THEN [err |-> "ErrShape", h |-> h, m |-> <<>>]
    ELSE IF data = nilSlice
         THEN [err |-> NoErr, h |-> Alloc(h, Zeros(n * n)),
               m |-> [kind |-> "SymDense", N |-> n, Stride |-> n, Data |-> SliceOf(h, Zeros(n * n))]]
         ELSE [err |-> NoErr, h |-> h,
               m |-> [kind |-> "SymDense", N |-> n, Stride |-> n, Data |-> data]]

\* An At that reads the lower triangle of Data.
AtSymLower(h, x, i, j) ==
    IF i < 0 \/ i >= x.N THEN [err |-> "ErrRowAccess", val |-> 0]
    ELSE IF j < 0 \/ j >= x.N THEN [err |-> "ErrColAccess", val |-> 0]
    ELSE LET r == IF i > j THEN i ELSE j
             c == IF i > j THEN j ELSE i
         IN  [err |-> NoErr, val |-> Load(h, x.Data, r * x.Stride + c)]

\* (*SymDense).At(i, j)
AtSym(h, x, i, j) ==
    IF i < 0 \/ i >= x.N THEN [err |-> "ErrRowAccess", val |-> 0]
    ELSE IF j < 0 \/ j >= x.N THEN [err |-> "ErrColAccess", val |-> 0]
    ELSE LET r == IF i > j THEN j ELSE i
             c == IF i > j THEN i ELSE j
         IN  [err |-> NoErr, val |-> Load(h, x.Data, r * x.Stride + c)]

\* A SetSym that writes the addressed cell without folding it into the
\* upper triangle.
SetSymUnfolded(h, x, i, j, val) ==
    IF i < 0 \/ i >= x.N THEN [err |-> "ErrRowAccess", h |-> h]
    ELSE IF j < 0 \/ j >= x.N THEN [err |-> "ErrColAccess", h |-> h]
    ELSE [err |-> NoErr, h |-> Store(h, x.Data, i * x.Stride + j, val)]

\* (*SymDense).SetSym(i, j, val)
SetSym(h, x, i, j, val) ==
    IF i < 0 \/ i >= x.N THEN [err |-> "ErrRowAccess", h |-> h]
    ELSE IF j < 0 \/ j >= x.N THEN [err |-> "ErrColAccess", h |-> h]
    ELSE LET r == IF i > j THEN j ELSE i
             c == IF i > j THEN i ELSE j
         IN  [err |-> NoErr, h |-> Store(h, x.Data, r * x.Stride + c, val)]

(***************************************************************************)
(* mat.DiagDense: blas64.Vector{N, Inc, Data} holding the diagonal.        *)
(***************************************************************************)
\* mat.NewDiagDense(n, data)
NewDiagDense(h, n, data) ==
    IF n <= 0 THEN [err |-> IF n = 0 THEN "ErrZeroLength" ELSE "ErrNegativeDimension", h |-> h, m |-> <<>>]
    ELSE IF data # nilSlice /\ data.len # n THEN [err |-> "ErrShape", h |-> h, m |-> <<>>]
    ELSE IF data = nilSlice
         THEN [err |-> NoErr, h |-> Alloc(h, Zeros(n)),
               m |-> [kind |-> "DiagDense", N |-> n, Inc |-> 1, Data |-> SliceOf(h, Zeros(n))]]
         ELSE [err |-> NoErr, h |-> h,
               m |-> [kind |-> "DiagDense", N |-> n, Inc |-> 1, Data |-> data]]

\* An At that reads the row's diagonal value at every column.
AtDiagSmeared(h, x, i, j) ==
    IF i < 0 \/ i >= x.N THEN [err |-> "ErrRowAccess", val |-> 0]
    ELSE IF j < 0 \/ j >= x.N THEN [err |-> "ErrColAccess", val |-> 0]
    ELSE [err |-> NoErr, val |-> Load(h, x.Data, i * x.Inc)]

\* (*DiagDense).At(i, j)
AtDiag(h, x, i, j) ==
    IF i < 0 \/ i >= x.N THEN [err |-> "ErrRowAccess", val |-> 0]
    ELSE IF j < 0 \/ j >= x.N THEN [err |-> "ErrColAccess", val |-> 0]
    ELSE IF i # j THEN [err |-> NoErr, val |-> 0]
    ELSE [err |-> NoErr, val |-> Load(h, x.Data, i * x.Inc)]

\* (*DiagDense).SetDiag(i, val)
SetDiag(h, x, i, val) ==
    IF i < 0 \/ i >= x.N THEN [err |-> "ErrRowAccess", h |-> h]
    ELSE [err |-> NoErr, h |-> Store(h, x.Data, i * x.Inc, val)]

(***************************************************************************)
(* mat.TriDense: blas64.Triangular{N, Stride, Data, Uplo}.  All n*n values *)
(* are kept in Data; only the triangle named by Uplo is read or written.   *)
(***************************************************************************)
Upper == "Upper"

Lower == "Lower"

\* mat.NewTriDense(n, kind, data)
NewTriDense(h, n, kind, data) ==
    IF n <= 0 THEN [err |-> IF n = 0 THEN "ErrZeroLength" ELSE "ErrNegativeDimension", h |-> h, m |-> <<>>]
    ELSE IF data # nilSlice /\ data.len # n * n THEN [err |-> "ErrShape", h |-> h, m |-> <<>>]
    ELSE IF data = nilSlice
         THEN [err |-> NoErr, h |-> Alloc(h, Zeros(n * n)),
               m |-> [kind |-> "TriDense", N |-> n, Stride |-> n, Uplo |-> kind,
                      Data |-> SliceOf(h, Zeros(n * n))]]
         ELSE [err |-> NoErr, h |-> h,
               m |-> [kind |-> "TriDense", N |-> n, Stride |-> n, Uplo |-> kind, Data |-> data]]

\* the position lies in the triangle that Uplo leaves out
InZeroTriangle(x, i, j) == (x.Uplo = Upper /\ i > j) \/ (x.Uplo = Lower /\ i < j)

\* An At that reads Data at every position.
AtTriFull(h, x, i, j) ==
    IF i < 0 \/ i >= x.N THEN [err |-> "ErrRowAccess", val |-> 0]
    ELSE IF j < 0 \/ j >= x.N THEN [err |-> "ErrColAccess", val |-> 0]
    ELSE [err |-> NoErr, val |-> Load(h, x.Data, i * x.Stride + j)]

\* An At that reads Data column by column.
AtTriByColumn(h, x, i, j) ==
    IF i < 0 \/ i >= x.N THEN [err |-> "ErrRowAccess", val |-> 0]
    ELSE IF j < 0 \/ j >= x.N THEN [err |-> "ErrColAccess", val |-> 0]
    ELSE IF InZeroTriangle(x, i, j) THEN [err |-> NoErr, val |-> 0]
    ELSE [err |-> NoErr, val |-> Load(h, x.Data, j * x.Stride + i)]

\* (*TriDense).At(i, j)
AtTri(h, x, i, j) ==
    IF i < 0 \/ i >= x.N THEN [err |-> "ErrRowAccess", val |-> 0]
    ELSE IF j < 0 \/ j >= x.N THEN [err |-> "ErrColAccess", val |-> 0]
    ELSE IF InZeroTriangle(x, i, j) THEN [err |-> NoErr, val |-> 0]
    ELSE [err |-> NoErr, val |-> Load(h, x.Data, i * x.Stride + j)]

\* A SetTri that tests the triangle as if every matrix were Lower.
SetTriLowerOnly(h, x, i, j, val) ==
    IF i < 0 \/ i >= x.N THEN [err |-> "ErrRowAccess", h |-> h]
    ELSE IF j < 0 \/ j >= x.N THEN [err |-> "ErrColAccess", h |-> h]
    ELSE IF i < j THEN [err |-> "ErrTriangleSet", h |-> h]
    ELSE [err |-> NoErr, h |-> Store(h, x.Data, i * x.Stride + j, val)]

\* A SetTri that stores the value before it checks the triangle.
SetTriStoresFirst(h, x, i, j, val) ==
    IF i < 0 \/ i >= x.N THEN [err |-> "ErrRowAccess", h |-> h]
    ELSE IF j < 0 \/ j >= x.N THEN [err |-> "ErrColAccess", h |-> h]
    ELSE [err |-> IF InZeroTriangle(x, i, j) THEN "ErrTriangleSet" ELSE NoErr,
          h |-> Store(h, x.Data, i * x.Stride + j, val)]

\* (*TriDense).SetTri(i, j, val)
SetTri(h, x, i, j, val) ==
    IF i < 0 \/ i >= x.N THEN [err |-> "ErrRowAccess", h |-> h]
    ELSE IF j < 0 \/ j >= x.N THEN [err |-> "ErrColAccess", h |-> h]
    ELSE IF InZeroTriangle(x, i, j) THEN [err |-> "ErrTriangleSet", h |-> h]
    ELSE [err |-> NoErr, h |-> Store(h, x.Data, i * x.Stride + j, val)]

(***************************************************************************)
(* mat.Dense: blas64.General{Rows, Cols, Stride, Data}, row-major, with    *)
(* capRows and capCols.  The zero value (var c mat.Dense) is empty.        *)
(***************************************************************************)
\* var c mat.Dense
EmptyDense ==
    [kind |-> "Dense", Rows |-> 0, Cols |-> 0, Stride |-> 0, Data |-> nilSlice,
     capRows |-> 0, capCols |-> 0]

\* a Dense over a fresh r*c array
FreshDense(h, r, c) ==
    [kind |-> "Dense", Rows |-> r, Cols |-> c, Stride |-> c, Data |-> SliceOf(h, Zeros(r * c)),
     capRows |-> r, capCols |-> c]

\* A NewDense that takes any number of rows and columns.
NewDenseUnchecked(h, r, c, data) ==
    IF data # nilSlice /\ data.len # r * c THEN [err |-> "ErrShape", h |-> h, m |-> <<>>]
    ELSE IF data = nilSlice
         THEN [err |-> NoErr, h |-> Alloc(h, Zeros(r * c)), m |-> FreshDense(h, r, c)]
         ELSE [err |-> NoErr, h |-> h,
               m |-> [kind |-> "Dense", Rows |-> r, Cols |-> c, Stride |-> c, Data |-> data,
                      capRows |-> r, capCols |-> c]]

\* A NewDense that lays the initializer out column by column.
NewDenseColMajor(h, r, c, data) ==
    IF r <= 0 \/ c <= 0
    THEN [err |-> IF r = 0 \/ c = 0 THEN "ErrZeroLength" ELSE "ErrNegativeDimension", h |-> h, m |-> <<>>]
    ELSE IF data # nilSlice /\ data.len # r * c THEN [err |-> "ErrShape", h |-> h, m |-> <<>>]
    ELSE IF data = nilSlice
         THEN [err |-> NoErr, h |-> Alloc(h, Zeros(r * c)), m |-> FreshDense(h, r, c)]
         ELSE [err |-> NoErr,
               h |-> [h EXCEPT ![data.arr] =
                         [k \in 1..(r * c) |-> h[data.arr][((k - 1) % c) * r + ((k - 1) \div c) + 1]]],
               m |-> [kind |-> "Dense", Rows |-> r, Cols |-> c, Stride |-> c, Data |-> data,
                      capRows |-> r, capCols |-> c]]

\* mat.NewDense(r, c, data); the given slice becomes the backing data.
NewDense(h, r, c, data) ==
    IF r <= 0 \/ c <= 0
    THEN [err |-> IF r = 0 \/ c = 0 THEN "ErrZeroLength" ELSE "ErrNegativeDimension", h |-> h, m |-> <<>>]
    ELSE IF data # nilSlice /\ data.len # r * c THEN [err |-> "ErrShape", h |-> h, m |-> <<>>]
    ELSE IF data = nilSlice
         THEN [err |-> NoErr, h |-> Alloc(h, Zeros(r * c)), m |-> FreshDense(h, r, c)]
         ELSE [err |-> NoErr, h |-> h,
               m |-> [kind |-> "Dense", Rows |-> r, Cols |-> c, Stride |-> c, Data |-> data,
                      capRows |-> r, capCols |-> c]]

\* (*Dense).IsEmpty, (*VecDense).IsEmpty
IsEmpty(x) == IF x.kind = "Dense" THEN x.Stride = 0 ELSE x.Inc = 0

\* var v mat.VecDense
EmptyVec == [kind |-> "VecDense", N |-> 0, Inc |-> 0, Data |-> nilSlice]

\* (*Dense).At(i, j)
AtDense(h, x, i, j) ==
    IF i < 0 \/ i >= x.Rows THEN [err |-> "ErrRowAccess", val |-> 0]
    ELSE IF j < 0 \/ j >= x.Cols THEN [err |-> "ErrColAccess", val |-> 0]
    ELSE [err |-> NoErr, val |-> Load(h, x.Data, i * x.Stride + j)]

\* (*Dense).Set(i, j, val)
Set(h, x, i, j, val) ==
    IF i < 0 \/ i >= x.Rows THEN [err |-> "ErrRowAccess", h |-> h]
    ELSE IF j < 0 \/ j >= x.Cols THEN [err |-> "ErrColAccess", h |-> h]
    ELSE [err |-> NoErr, h |-> Store(h, x.Data, i * x.Stride + j, val)]

(***************************************************************************)
(* The mat.Matrix interface: Dims, At and T of every kind of matrix, and   *)
(* the view type mat.Transpose that T returns.                              *)
(***************************************************************************)
\* A T that keeps the dimensions and the element order of its argument.
TUnswapped(x) == x

\* A T that returns a triangular matrix itself.
TKeepTri(x) ==
    CASE x.kind = "Transpose" -> x.Matrix
      [] x.kind \in {"SymDense", "DiagDense", "TriDense"} -> x
      [] OTHER -> [kind |-> "Transpose", Matrix |-> x]

\* A T that leaves a view that is already transposed as it is.
TOnce(x) ==
    CASE x.kind = "Transpose" -> x
      [] x.kind \in {"SymDense", "DiagDense"} -> x
      [] OTHER -> [kind |-> "Transpose", Matrix |-> x]

\* Matrix.T(): a Transpose view for Dense, VecDense and TriDense; the
\* matrix itself for SymDense and DiagDense; the wrapped matrix for a view.
T(x) ==
    CASE x.kind = "Transpose" -> x.Matrix
      [] x.kind \in {"SymDense", "DiagDense"} -> x
      [] OTHER -> [kind |-> "Transpose", Matrix |-> x]

RECURSIVE Dims(_)
\* Matrix.Dims()
Dims(x) ==
    CASE x.kind = "Dense" -> <<x.Rows, x.Cols>>
      [] x.kind = "VecDense" -> IF IsEmpty(x) THEN <<0, 0>> ELSE <<x.N, 1>>
      [] x.kind = "Transpose" -> <<Dims(x.Matrix)[2], Dims(x.Matrix)[1]>>
      [] OTHER -> <<x.N, x.N>>

\* (*VecDense).At(i, j)
AtVecDense(h, x, i, j) ==
    IF i < 0 \/ i >= x.N THEN [err |-> "ErrRowAccess", val |-> 0]
    ELSE IF j # 0 THEN [err |-> "ErrColAccess", val |-> 0]
    ELSE [err |-> NoErr, val |-> Load(h, x.Data, i * x.Inc)]

RECURSIVE At(_, _, _, _)
\* Matrix.At(i, j)
At(h, x, i, j) ==
    CASE x.kind = "Dense" -> AtDense(h, x, i, j)
      [] x.kind = "VecDense" -> AtVecDense(h, x, i, j)
      [] x.kind = "SymDense" -> AtSym(h, x, i, j)
      [] x.kind = "DiagDense" -> AtDiag(h, x, i, j)
      [] x.kind = "TriDense" -> AtTri(h, x, i, j)
      [] x.kind = "Transpose" -> At(h, x.Matrix, j, i)

\* the matrix or vector from which a view was taken (untransposeExtract)
Untranspose(x) ==
    CASE x.kind = "Transpose" -> x.Matrix
      [] OTHER -> x

\* all elements of x, by row and column (both counted from 0)
Elements(h, x) ==
    [i \in 0..(Dims(x)[1] - 1) |-> [j \in 0..(Dims(x)[2] - 1) |-> At(h, x, i, j).val]]

(***************************************************************************)
(* Operations that write their result into the receiver.  Each first       *)
(* checks the operands' shapes, then sizes the receiver (reuseAsNonZeroed: *)
(* an empty receiver is allocated, a non-empty one must already have the   *)
(* result's shape), then stores the result computed from the operands as   *)
(* they were before the call (a receiver that is also an operand is worked *)
(* on through an isolated workspace).                                      *)
(***************************************************************************)
\* (*Dense).reuseAsNonZeroed(r, c)
reuseAsNonZeroed(h, m, r, c) ==
    IF r = 0 \/ c = 0 THEN [err |-> "ErrZeroLength", h |-> h, m |-> m]
    ELSE IF IsEmpty(m) THEN [err |-> NoErr, h |-> Alloc(h, Zeros(r * c)), m |-> FreshDense(h, r, c)]
    ELSE IF r # m.Rows \/ c # m.Cols THEN [err |-> "ErrShape", h |-> h, m |-> m]
    ELSE [err |-> NoErr, h |-> h, m |-> m]

\* (*VecDense).reuseAsNonZeroed(r)
reuseAsNonZeroedVec(h, m, r) ==
    IF r <= 0 THEN [err |-> IF r = 0 THEN "ErrZeroLength" ELSE "ErrNegativeDimension", h |-> h, m |-> m]
    ELSE IF IsEmpty(m)
         THEN [err |-> NoErr, h |-> Alloc(h, Zeros(r)),
               m |-> [kind |-> "VecDense", N |-> r, Inc |-> 1, Data |-> SliceOf(h, Zeros(r))]]
    ELSE IF r # m.N THEN [err |-> "ErrShape", h |-> h, m |-> m]
    ELSE [err |-> NoErr, h |-> h, m |-> m]

\* m.set(i, j, F[i][j]) for every element of the Dense m
Fill(h, m, F) ==
    [h EXCEPT ![m.Data.arr] =
        [k \in DOMAIN @ |->
            LET p == k - 1 - m.Data.off
            IN  IF p >= 0 /\ p < m.Data.len /\ (p % m.Stride) < m.Cols
                THEN F[p \div m.Stride][p % m.Stride]
                ELSE @[k]]]

\* m.setVec(i, F[i]) for every element of the VecDense m
FillVec(h, m, F) ==
    [h EXCEPT ![m.Data.arr] =
        [k \in DOMAIN @ |->
            LET p == k - 1 - m.Data.off
            IN  IF p >= 0 /\ p < m.Data.len /\ (p % m.Inc) = 0
                THEN F[p \div m.Inc]
                ELSE @[k]]]

\* the receiver m sized to r x c and filled with F, or the panic of sizing
Into(h, m, r, c, F) ==
    LET ru == reuseAsNonZeroed(h, m, r, c)
    IN  IF ru.err # NoErr THEN [err |-> ru.err, h |-> h, m |-> m]
        ELSE [err |-> NoErr, h |-> Fill(ru.h, ru.m, F), m |-> ru.m]

\* the receiver vector m sized to r and filled with F, or the panic of sizing
IntoVec(h, m, r, F) ==
    LET ru == reuseAsNonZeroedVec(h, m, r)
    IN  IF ru.err # NoErr THEN [err |-> ru.err, h |-> h, m |-> m]
        ELSE [err |-> NoErr, h |-> FillVec(ru.h, ru.m, F), m |-> ru.m]

RECURSIVE SumTo(_, _)
\* f[0] + ... + f[n-1]
SumTo(f, n) == IF n = 0 THEN 0 ELSE SumTo(f, n - 1) + f[n - 1]

\* An Add that adds a to itself.
AddDoubled(h, m, a, b) ==
    IF Dims(a) # Dims(b) THEN [err |-> "ErrShape", h |-> h, m |-> m]
    ELSE Into(h, m, Dims(a)[1], Dims(a)[2],
              [i \in 0..(Dims(a)[1] - 1) |-> [j \in 0..(Dims(a)[2] - 1) |->
                  At(h, a, i, j).val + At(h, a, i, j).val]])

\* (*Dense).Add(a, b)
Add(h, m, a, b) ==
    IF Dims(a) # Dims(b) THEN [err |-> "ErrShape", h |-> h, m |-> m]
    ELSE Into(h, m, Dims(a)[1], Dims(a)[2],
              [i \in 0..(Dims(a)[1] - 1) |-> [j \in 0..(Dims(a)[2] - 1) |->
                  At(h, a, i, j).val + At(h, b, i, j).val]])

\* A Mul that pairs row i of a with row j of b.
MulRowByRow(h, m, a, b) ==
    IF Dims(a)[2] # Dims(b)[1] THEN [err |-> "ErrShape", h |-> h, m |-> m]
    ELSE Into(h, m, Dims(a)[1], Dims(b)[2],
              [i \in 0..(Dims(a)[1] - 1) |-> [j \in 0..(Dims(b)[2] - 1) |->
                  SumTo([k \in 0..(Dims(a)[2] - 1) |->
                            At(h, a, i, k).val * At(h, b, j, k).val],
                        Dims(a)[2])]])

\* A Mul that leaves the shape check to the caller.
MulUnchecked(h, m, a, b) ==
    Into(h, m, Dims(a)[1], Dims(b)[2],
         [i \in 0..(Dims(a)[1] - 1) |-> [j \in 0..(Dims(b)[2] - 1) |->
             SumTo([k \in 0..(Dims(a)[2] - 1) |->
                       At(h, a, i, k).val * At(h, b, k % Dims(b)[1], j).val],
                   Dims(a)[2])]])

\* (*Dense).Mul(a, b)
Mul(h, m, a, b) ==
    IF Dims(a)[2] # Dims(b)[1] THEN [err |-> "ErrShape", h |-> h, m |-> m]
    ELSE Into(h, m, Dims(a)[1], Dims(b)[2],
              [i \in 0..(Dims(a)[1] - 1) |-> [j \in 0..(Dims(b)[2] - 1) |->
                  SumTo([k \in 0..(Dims(a)[2] - 1) |-> At(h, a, i, k).val * At(h, b, k, j).val],
                        Dims(a)[2])]])

\* (*Dense).MulElem(a, b)
MulElem(h, m, a, b) ==
    IF Dims(a) # Dims(b) THEN [err |-> "ErrShape", h |-> h, m |-> m]
    ELSE Into(h, m, Dims(a)[1], Dims(a)[2],
              [i \in 0..(Dims(a)[1] - 1) |-> [j \in 0..(Dims(a)[2] - 1) |->
                  At(h, a, i, j).val * At(h, b, i, j).val]])

\* An AddVec that adds a + b to what the receiver holds.
AddVecAccumulate(h, m, a, b) ==
    IF LenVec(a) # LenVec(b) THEN [err |-> "ErrShape", h |-> h, m |-> m]
    ELSE IntoVec(h, m, LenVec(a),
                 [i \in 0..(LenVec(a) - 1) |->
                     (IF LenVec(m) = LenVec(a) THEN AtVec(h, m, i).val ELSE 0)
                         + AtVec(h, a, i).val + AtVec(h, b, i).val])

\* (*VecDense).AddVec(a, b)
AddVec(h, m, a, b) ==
    IF LenVec(a) # LenVec(b) THEN [err |-> "ErrShape", h |-> h, m |-> m]
    ELSE IntoVec(h, m, LenVec(a), [i \in 0..(LenVec(a) - 1) |-> AtVec(h, a, i).val + AtVec(h, b, i).val])

\* (*VecDense).SubVec(a, b)
SubVec(h, m, a, b) ==
    IF LenVec(a) # LenVec(b) THEN [err |-> "ErrShape", h |-> h, m |-> m]
    ELSE IntoVec(h, m, LenVec(a), [i \in 0..(LenVec(a) - 1) |-> AtVec(h, a, i).val - AtVec(h, b, i).val])

\* A ScaleVec that scales a where it lies and then copies it to the receiver.
ScaleVecInPlace(h, m, alpha, a) ==
    LET F == [i \in 0..(LenVec(a) - 1) |-> alpha * AtVec(h, a, i).val]
    IN  IntoVec(FillVec(h, a, F), m, LenVec(a), F)

\* (*VecDense).ScaleVec(alpha, a)
ScaleVec(h, m, alpha, a) ==
    IntoVec(h, m, LenVec(a), [i \in 0..(LenVec(a) - 1) |-> alpha * AtVec(h, a, i).val])

\* (*VecDense).MulElemVec(a, b)
MulElemVec(h, m, a, b) ==
    IF LenVec(a) # LenVec(b) THEN [err |-> "ErrShape", h |-> h, m |-> m]
    ELSE IntoVec(h, m, LenVec(a), [i \in 0..(LenVec(a) - 1) |-> AtVec(h, a, i).val * AtVec(h, b, i).val])

RECURSIVE MulVecRows(_, _, _, _, _)
\* the heap after the first n elements of a*b are stored into m one by one,
\* each computed from the heap as the elements before it left it
MulVecRows(h, m, a, b, n) ==
    IF n = 0 THEN h
    ELSE LET g == MulVecRows(h, m, a, b, n - 1)
         IN  Store(g, m.Data, (n - 1) * m.Inc,
                   SumTo([k \in 0..(Dims(a)[2] - 1) |-> At(g, a, n - 1, k).val * AtVec(g, b, k).val],
                         Dims(a)[2]))

\* A MulVec that works in the receiver's own storage even when the receiver
\* is the vector operand.
MulVecInPlace(h, m, a, b) ==
    IF Dims(a)[2] # Dims(b)[1] \/ Dims(b)[2] # 1 THEN [err |-> "ErrShape", h |-> h, m |-> m]
    ELSE LET ru == reuseAsNonZeroedVec(h, m, Dims(a)[1])
         IN  IF ru.err # NoErr THEN [err |-> ru.err, h |-> h, m |-> m]
             ELSE [err |-> NoErr, h |-> MulVecRows(ru.h, ru.m, a, b, Dims(a)[1]), m |-> ru.m]

\* (*VecDense).MulVec(a, b): a any Matrix, b a vector
MulVec(h, m, a, b) ==
    IF Dims(a)[2] # Dims(b)[1] \/ Dims(b)[2] # 1 THEN [err |-> "ErrShape", h |-> h, m |-> m]
    ELSE IntoVec(h, m, Dims(a)[1],
                 [i \in 0..(Dims(a)[1] - 1) |->
                     SumTo([k \in 0..(Dims(a)[2] - 1) |-> At(h, a, i, k).val * AtVec(h, b, k).val],
                           Dims(a)[2])])

(***************************************************************************)
(* Functions that return a value and have no receiver.                     *)
(***************************************************************************)
\* A Dot that multiplies the sums of the two vectors.
DotOfSums(h, a, b) ==
    IF LenVec(a) # LenVec(b) THEN [err |-> "ErrShape", val |-> 0]
    ELSE [err |-> NoErr,
          val |-> SumTo([i \in 0..(LenVec(a) - 1) |-> AtVec(h, a, i).val], LenVec(a))
                      * SumTo([i \in 0..(LenVec(b) - 1) |-> AtVec(h, b, i).val], LenVec(b))]

\* mat.Dot(a, b)
Dot(h, a, b) ==
    IF LenVec(a) # LenVec(b) THEN [err |-> "ErrShape", val |-> 0]
    ELSE [err |-> NoErr,
          val |-> SumTo([i \in 0..(LenVec(a) - 1) |-> AtVec(h, a, i).val * AtVec(h, b, i).val], LenVec(a))]

\* the values of all elements of a
ElementSet(h, a) ==
    {At(h, a, i, j).val : i \in 0..(Dims(a)[1] - 1), j \in 0..(Dims(a)[2] - 1)}

\* A Max that looks at the first row only.
MaxOfFirstRow(h, a) ==
    IF Dims(a)[1] = 0 \/ Dims(a)[2] = 0 THEN [err |-> "ErrZeroLength", val |-> 0]
    ELSE [err |-> NoErr,
          val |-> CHOOSE x \in {At(h, a, 0, j).val : j \in 0..(Dims(a)[2] - 1)} :
                      \A j \in 0..(Dims(a)[2] - 1) : At(h, a, 0, j).val <= x]

\* mat.Max(a)
Max(h, a) ==
    IF Dims(a)[1] = 0 \/ Dims(a)[2] = 0 THEN [err |-> "ErrZeroLength", val |-> 0]
    ELSE [err |-> NoErr, val |-> CHOOSE x \in ElementSet(h, a) : \A y \in ElementSet(h, a) : y <= x]

\* mat.Min(a)
Min(h, a) ==
    IF Dims(a)[1] = 0 \/ Dims(a)[2] = 0 THEN [err |-> "ErrZeroLength", val |-> 0]
    ELSE [err |-> NoErr, val |-> CHOOSE x \in ElementSet(h, a) : \A y \in ElementSet(h, a) : x <= y]

\* mat.Sum(a)
Sum(h, a) ==
    [err |-> NoErr,
     val |-> SumTo([i \in 0..(Dims(a)[1] - 1) |->
                      SumTo([j \in 0..(Dims(a)[2] - 1) |-> At(h, a, i, j).val], Dims(a)[2])],
                   Dims(a)[1])]

\* mat.Col(nil, j, a): a fresh slice holding column j
Col(h, j, a) ==
    IF j < 0 \/ j >= Dims(a)[2] THEN [err |-> "ErrColAccess", val |-> <<>>]
    ELSE [err |-> NoErr, val |-> [k \in 1..Dims(a)[1] |-> At(h, a, k - 1, j).val]]

\* mat.Row(nil, i, a): a fresh slice holding row i
Row(h, i, a) ==
    IF i < 0 \/ i >= Dims(a)[1] THEN [err |-> "ErrRowAccess", val |-> <<>>]
    ELSE [err |-> NoErr, val |-> [k \in 1..Dims(a)[2] |-> At(h, a, i, k - 1).val]]

(***************************************************************************)
(* The vector v and its slice view w (main: v = NewVecDense(10, 1..10),    *)
(* w := v.SliceVec(0, 9), v.SetVec(5, 100)), used by a caller that makes   *)
(* any sequence of SetVec and SliceVec calls and recovers from the panics. *)
(***************************************************************************)
VecLen == 10

SetVal == 100

\* the number of successful SetVec calls a run makes
MaxWrites == 2

Ramp(n) == [k \in 1..n |-> k]

\* slice bounds tried: those of main (4, 6, 0, 9, -1) and the edges of v
SliceBounds == {-1, 0, 4, 6, VecLen - 1, VecLen, VecLen + 1}

\* element indices tried: that of main (5) and the edges of v and of w
SetIndices == {-1, 0, 5, VecLen - 2, VecLen - 1, VecLen}

Untouched == [op |-> "new", i |-> 0, k |-> 0]

\* the value of a variable of main that is not yet declared
Unused == <<>>

\* main is not run
MainUnused ==
    /\ pc = 0 /\ env = Unused /\ out = Unused /\ deferred = FALSE
    /\ status = "unused" /\ handled = 0 /\ uncommented = "none"

AlgUnused ==
    /\ inp = Unused /\ m2 = Unused /\ m3 = Unused
    /\ rcv = Unused /\ res = Unused /\ nops = 0

ObjUnused ==
    /\ v = Unused /\ w = Unused /\ wfrom = 0
    /\ s = Unused /\ d3 = Unused /\ t3 = Unused

Written(h) == Cardinality({k \in 1..VecLen : h[1][k] # k})

InitVec ==
    /\ LET r == NewVecDense(Alloc(<<>>, Ramp(VecLen)), VecLen, SliceOf(<<>>, Ramp(VecLen)))
       IN  /\ heap = r.h
           /\ v = r.vec
           /\ w = r.vec
    /\ wfrom = 0
    /\ s = Unused /\ d3 = Unused /\ t3 = Unused
    /\ AlgUnused
    /\ MainUnused
    /\ call = Untouched
    /\ err = NoErr

\* w = v.SliceVec(i, k)
SliceV(i, k) ==
    LET r == SliceVec(heap, v, i, k)
    IN  /\ heap' = r.h
        /\ err' = r.err
        /\ call' = [op |-> "v.SliceVec", i |-> i, k |-> k]
        /\ w' = IF r.err = NoErr THEN r.vec ELSE w
        /\ wfrom' = IF r.err = NoErr THEN i ELSE wfrom
        /\ UNCHANGED <<mainVars, v, s, d3, t3, algVars>>

\* w = w.SliceVec(i, k)
SliceW(i, k) ==
    LET r == SliceVec(heap, w, i, k)
    IN  /\ heap' = r.h
        /\ err' = r.err
        /\ call' = [op |-> "w.SliceVec", i |-> i, k |-> k]
        /\ w' = IF r.err = NoErr THEN r.vec ELSE w
        /\ wfrom' = IF r.err = NoErr THEN wfrom + i ELSE wfrom
        /\ UNCHANGED <<mainVars, v, s, d3, t3, algVars>>

\* v.SetVec(i, x)
SetVecV(i, x) ==
    LET r == SetVec(heap, v, i, x)
    IN  /\ Written(r.h) <= MaxWrites
        /\ heap' = r.h
        /\ err' = r.err
        /\ call' = [op |-> "v.SetVec", i |-> i, k |-> x]
        /\ UNCHANGED <<mainVars, objVars, algVars>>

\* w.SetVec(i, x)
SetVecW(i, x) ==
    LET r == SetVec(heap, w, i, x)
    IN  /\ Written(r.h) <= MaxWrites
        /\ heap' = r.h
        /\ err' = r.err
        /\ call' = [op |-> "w.SetVec", i |-> i, k |-> x]
        /\ UNCHANGED <<mainVars, objVars, algVars>>

NextVec ==
    \/ \E i, k \in SliceBounds : SliceV(i, k)
    \/ \E i, k \in SliceBounds : SliceW(i, k)
    \/ \E i \in SetIndices : SetVecV(i, SetVal)
    \/ \E i \in SetIndices : SetVecW(i, SetVal)

SpecVec == InitVec /\ [][NextVec]_vars

\* C1: a slice view shares its origin's storage: in every state reached by
\* SetVec calls through v or through w, w.AtVec(i) = v.AtVec(start + i) for
\* every i in [0, w.Len()), and right after v.SetVec(5, 100) on
\* w = v.SliceVec(0, 9) the read w.AtVec(5) returns 100.
SliceViewAliasing ==
    /\ \A i \in 0..(LenVec(w) - 1) :
          /\ AtVec(heap, w, i).err = NoErr
          /\ AtVec(heap, v, wfrom + i).err = NoErr
          /\ AtVec(heap, w, i).val = AtVec(heap, v, wfrom + i).val
    /\ (call = [op |-> "v.SetVec", i |-> 5, k |-> 100] /\ wfrom = 0 /\ LenVec(w) = 9)
          => AtVec(heap, w, 5).val = 100
    /\ \A i \in 0..(LenVec(w) - 1) :
          call = [op |-> "w.SetVec", i |-> i, k |-> SetVal]
              => AtVec(heap, v, wfrom + i).val = SetVal

\* w = v.SliceVec(0, 9) has seen v.SetVec(5, 100)
SliceViewWritten ==
    /\ call = [op |-> "v.SetVec", i |-> 5, k |-> 100]
    /\ err = NoErr
    /\ wfrom = 0
    /\ LenVec(w) = 9
    /\ AtVec(heap, w, 5).val = 100

(***************************************************************************)
(* The symmetric matrix s (main: s := NewSymDense(3, 1..9),                *)
(* s.SetSym(1, 0, -100)) under any sequence of SetSym calls.               *)
(***************************************************************************)
\* the largest size of the square matrices built
MaxSize == 3

SymVal == -100

Sizes == 1..MaxSize

InitSym ==
    /\ \E n \in Sizes :
          LET r == NewSymDense(Alloc(<<>>, Ramp(n * n)), n, SliceOf(<<>>, Ramp(n * n)))
          IN  heap = r.h /\ s = r.m
    /\ v = Unused /\ w = Unused /\ wfrom = 0
    /\ d3 = Unused /\ t3 = Unused
    /\ AlgUnused
    /\ MainUnused
    /\ call = Untouched
    /\ err = NoErr

\* s.SetSym(i, j, x)
SetSymS(i, j, x) ==
    LET r == SetSym(heap, s, i, j, x)
    IN  /\ heap' = r.h
        /\ err' = r.err
        /\ call' = [op |-> "s.SetSym", i |-> i, j |-> j, x |-> x]
        /\ UNCHANGED <<mainVars, objVars, algVars>>

NextSym == \E i, j \in -1..MaxSize : SetSymS(i, j, SymVal)

SpecSym == InitSym /\ [][NextSym]_vars

InRangeSq(n, i, j) == i \in 0..(n - 1) /\ j \in 0..(n - 1)

Symmetric(h, x) ==
    \A i, j \in 0..(x.N - 1) :
        /\ AtSym(h, x, i, j).err = NoErr
        /\ AtSym(h, x, i, j).val = AtSym(h, x, j, i).val

\* what a SetSym(i, j, x) step that returned leaves behind
SetSymEffect ==
    (call'.op = "s.SetSym" /\ err' = NoErr) =>
        /\ AtSym(heap', s', call'.i, call'.j).val = call'.x
        /\ AtSym(heap', s', call'.j, call'.i).val = call'.x
        /\ \A p, q \in 0..(s.N - 1) :
              (<<p, q>> # <<call'.i, call'.j>> /\ <<p, q>> # <<call'.j, call'.i>>)
                  => AtSym(heap', s', p, q).val = AtSym(heap, s, p, q).val

\* C3: a symmetric matrix reads At(i,j) = At(j,i) for all i, j from its
\* construction on and after every SetSym call; right after SetSym(i,j,x)
\* both At(i,j) and At(j,i) are x and no other position has changed.
SymmetricAlways ==
    /\ Symmetric(heap, s)
    /\ [][Symmetric(heap', s') /\ SetSymEffect]_vars

\* s of size 3 after s.SetSym(1, 0, -100): the pair (1,0), (0,1) reads -100
SymPairWritten ==
    /\ s # Unused
    /\ s.N = 3
    /\ call = [op |-> "s.SetSym", i |-> 1, j |-> 0, x |-> SymVal]
    /\ err = NoErr
    /\ AtSym(heap, s, 0, 1).val = SymVal
    /\ AtSym(heap, s, 1, 0).val = SymVal
    /\ AtSym(heap, s, 2, 1).val = 6

(***************************************************************************)
(* The triangular matrix t3 (main: t3 := NewTriDense(3, Upper, 1..9),      *)
(* t3.SetTri(0, 2, 100), and the refused t3.SetTri(2, 0, 100)) under any   *)
(* sequence of SetTri calls, the caller recovering from the panics.        *)
(***************************************************************************)
InitTri ==
    /\ \E n \in Sizes, kind \in {Upper, Lower} :
          LET r == NewTriDense(Alloc(<<>>, Ramp(n * n)), n, kind, SliceOf(<<>>, Ramp(n * n)))
          IN  heap = r.h /\ t3 = r.m
    /\ v = Unused /\ w = Unused /\ wfrom = 0
    /\ s = Unused /\ d3 = Unused
    /\ AlgUnused
    /\ MainUnused
    /\ call = Untouched
    /\ err = NoErr

\* t3.SetTri(i, j, x)
SetTriT(i, j, x) ==
    LET r == SetTri(heap, t3, i, j, x)
    IN  /\ heap' = r.h
        /\ err' = r.err
        /\ call' = [op |-> "t3.SetTri", i |-> i, j |-> j, x |-> x]
        /\ UNCHANGED <<mainVars, objVars, algVars>>

NextTri == \E i, j \in -1..MaxSize : SetTriT(i, j, SetVal)

SpecTri == InitTri /\ [][NextTri]_vars

\* C4: the complementary triangle of a triangular matrix reads zero in
\* every state reached from construction by SetTri calls that return or
\* panic: At(i,j) = 0 for i > j (Upper), for i < j (Lower).
ZeroTriangleAlways ==
    \A i, j \in 0..(t3.N - 1) :
        ((t3.Uplo = Upper /\ i > j) \/ (t3.Uplo = Lower /\ i < j))
            => AtTri(heap, t3, i, j) = [err |-> NoErr, val |-> 0]

\* an Upper matrix of size 3 after SetTri(2, 0, 100) was refused and
\* after SetTri(0, 2, 100) went through
ZeroTriangleTried ==
    /\ t3 # Unused
    /\ t3.N = 3 /\ t3.Uplo = Upper
    /\ call = [op |-> "t3.SetTri", i |-> 2, j |-> 0, x |-> SetVal]
    /\ err = "ErrTriangleSet"
    /\ AtTri(heap, t3, 0, 2).val = SetVal
    /\ AtTri(heap, t3, 2, 0).val = 0

\* C5: SetTri(row, col, x) on an in-range position panics with
\* ErrTriangleSet exactly when the position lies in the zero triangle
\* (row > col for Upper, row < col for Lower) and otherwise returns, after
\* which At(row, col) reads x; on a size-3 Upper matrix SetTri(2,0,x) panics
\* and SetTri(0,2,x) returns.
SetTriOutcome ==
    call.op = "t3.SetTri" =>
        /\ InRangeSq(t3.N, call.i, call.j) =>
              /\ err \in {NoErr, "ErrTriangleSet"}
              /\ err = "ErrTriangleSet" <=>
                    ((t3.Uplo = Upper /\ call.i > call.j) \/ (t3.Uplo = Lower /\ call.i < call.j))
              /\ err = NoErr => AtTri(heap, t3, call.i, call.j) = [err |-> NoErr, val |-> call.x]
        /\ (t3.N = 3 /\ t3.Uplo = Upper /\ call.i = 2 /\ call.j = 0) => err = "ErrTriangleSet"
        /\ (t3.N = 3 /\ t3.Uplo = Upper /\ call.i = 0 /\ call.j = 2) =>
              /\ err = NoErr
              /\ AtTri(heap, t3, 0, 2).val = call.x

\* an Upper matrix of size 3 right after SetTri(0, 2, 100) returned
SetTriStored ==
    /\ t3 # Unused
    /\ t3.N = 3 /\ t3.Uplo = Upper
    /\ call = [op |-> "t3.SetTri", i |-> 0, j |-> 2, x |-> SetVal]
    /\ err = NoErr
    /\ AtTri(heap, t3, 0, 2).val = SetVal
    /\ AtTri(heap, t3, 0, 1).val = 2

(***************************************************************************)
(* The diagonal matrix d3 (main: d3 := NewDiagDense(10, 1..10),            *)
(* d3.SetDiag(1, 100)) under any sequence of SetDiag calls.                *)
(***************************************************************************)
InitDiag ==
    /\ \E n \in Sizes, data \in {"nil", "ramp"} :
          LET h0 == IF data = "nil" THEN <<>> ELSE Alloc(<<>>, Ramp(n))
              r == NewDiagDense(h0, n, IF data = "nil" THEN nilSlice ELSE SliceOf(<<>>, Ramp(n)))
          IN  heap = r.h /\ d3 = r.m
    /\ v = Unused /\ w = Unused /\ wfrom = 0
    /\ s = Unused /\ t3 = Unused
    /\ AlgUnused
    /\ MainUnused
    /\ call = Untouched
    /\ err = NoErr

\* d3.SetDiag(i, x)
SetDiagD(i, x) ==
    LET r == SetDiag(heap, d3, i, x)
    IN  /\ heap' = r.h
        /\ err' = r.err
        /\ call' = [op |-> "d3.SetDiag", i |-> i, x |-> x]
        /\ UNCHANGED <<mainVars, objVars, algVars>>

NextDiag == \E i \in -1..MaxSize, x \in {SetVal, SymVal} : SetDiagD(i, x)

SpecDiag == InitDiag /\ [][NextDiag]_vars

OffDiagonalZero(h, x) ==
    \A i, j \in 0..(x.N - 1) : i # j => AtDiag(h, x, i, j) = [err |-> NoErr, val |-> 0]

\* what a SetDiag(index, x) step leaves behind
SetDiagEffect ==
    call'.op = "d3.SetDiag" =>
        /\ err' = "ErrRowAccess" <=> call'.i \notin 0..(d3.N - 1)
        /\ err' = NoErr <=> call'.i \in 0..(d3.N - 1)
        /\ err' = NoErr => AtDiag(heap', d3', call'.i, call'.i).val = call'.x
        /\ \A p, q \in 0..(d3.N - 1) :
              <<p, q>> # <<call'.i, call'.i>>
                  => AtDiag(heap', d3', p, q).val = AtDiag(heap, d3, p, q).val

\* C6: every off-diagonal read of a diagonal matrix returns zero, after
\* construction and after every SetDiag call; SetDiag(index, x) changes
\* only At(index, index) and panics with an index error exactly when index
\* is outside [0, size).
DiagonalAlways ==
    /\ OffDiagonalZero(heap, d3)
    /\ [][OffDiagonalZero(heap', d3') /\ SetDiagEffect]_vars

\* a diagonal matrix of size 3 right after SetDiag(1, 100) returned
DiagWritten ==
    /\ d3 # Unused
    /\ d3.N = 3
    /\ call = [op |-> "d3.SetDiag", i |-> 1, x |-> SetVal]
    /\ err = NoErr
    /\ AtDiag(heap, d3, 1, 1).val = SetVal
    /\ AtDiag(heap, d3, 0, 1).val = 0
    /\ AtDiag(heap, d3, 2, 2).val = 3

(***************************************************************************)
(* Construction of a dense matrix (main: mat.NewDense(3, 4, []float64{1,   *)
(* ..., 12}), mat.NewDense(5, 6, nil)) for the rows, cols and initializer  *)
(* the caller chooses.                                                     *)
(***************************************************************************)
\* the largest number of rows and of columns passed to NewDense
MaxDim == 3

\* a second initializer, different from Ramp(n) at every index
Desc(n) == [k \in 1..n |-> n + 2 - k]

\* the []float64 literal the caller passes: nil, 1..r*c, r*c+1..2, or a
\* literal one element short
Literal(in) ==
    CASE in.data = "nil" -> <<>>
      [] in.data = "ramp" -> Ramp(in.rows * in.cols)
      [] in.data = "desc" -> Desc(in.rows * in.cols)
      [] in.data = "short" -> Ramp(in.rows * in.cols + 1)

InitNew ==
    /\ \E r, c \in 0..MaxDim, d \in {"nil", "ramp", "desc", "short"} :
          inp = [rows |-> r, cols |-> c, data |-> d]
    /\ heap = IF inp.data = "nil" THEN <<>> ELSE Alloc(<<>>, Literal(inp))
    /\ m2 = Unused /\ m3 = Unused /\ rcv = Unused /\ res = Unused /\ nops = 0
    /\ ObjUnused
    /\ MainUnused
    /\ call = Untouched
    /\ err = NoErr

\* m2 := mat.NewDense(rows, cols, data)
NewDenseStep ==
    /\ call = Untouched
    /\ LET r == NewDense(heap, inp.rows, inp.cols,
                         IF inp.data = "nil" THEN nilSlice ELSE SliceOf(<<>>, Literal(inp)))
       IN  /\ heap' = r.h
           /\ err' = r.err
           /\ m2' = r.m
    /\ call' = [op |-> "NewDense", i |-> inp.rows, k |-> inp.cols]
    /\ UNCHANGED <<mainVars, objVars, inp, m3, rcv, res, nops>>

NextNew == NewDenseStep

SpecNew == InitNew /\ [][NextNew]_vars

\* C7: NewDense(rows, cols, initial) with rows, cols > 0 and an initializer
\* of length rows*cols returns a rows x cols matrix with
\* At(i,j) = initial[i*cols+j] for all i, j; with a nil initializer every
\* element reads 0.
RowMajorConstruction ==
    (call.op = "NewDense" /\ inp.rows > 0 /\ inp.cols > 0 /\ inp.data # "short") =>
        /\ err = NoErr
        /\ Dims(m2) = <<inp.rows, inp.cols>>
        /\ \A i \in 0..(inp.rows - 1), j \in 0..(inp.cols - 1) :
              At(heap, m2, i, j) =
                  [err |-> NoErr,
                   val |-> IF inp.data = "nil" THEN 0 ELSE Literal(inp)[i * inp.cols + j + 1]]

\* NewDense(2, 3, []float64{1, ..., 6}) has returned: row 1 reads 4, 5, 6
RowMajorBuilt ==
    /\ call.op = "NewDense"
    /\ inp = [rows |-> 2, cols |-> 3, data |-> "ramp"]
    /\ err = NoErr
    /\ At(heap, m2, 1, 0).val = 4
    /\ At(heap, m2, 0, 2).val = 3

(***************************************************************************)
(* Operands and a receiver under the operations main applies to them       *)
(* (m3 := m2.T(), c.Add(m3, m3), d.Mul(m2, m3), e.MulElem(m3, m3),         *)
(* v.AddVec(v1, v2), ..., v5.MulVec(m5, v5), mat.Dot(v1, v2), mat.Max(v),  *)
(* mat.Col(nil, 0, dense4), ...).  The first operand is a dense matrix or  *)
(* a vector; the second is another one, the first itself, or its           *)
(* transpose; the receiver is empty (var d mat.Dense), or already sized,   *)
(* or one of the operands (v5.MulVec(m5, v5)).                             *)
(***************************************************************************)
\* the largest number of rows and of columns of an operand
AlgDim == 2

\* the number of calls a run makes that write into the receiver
MaxOps == 2

Scale == 10

\* the shapes of operands: r x c dense matrices and vectors of length r
OperandShapes ==
    {[kind |-> "Dense", rows |-> r, cols |-> c] : r, c \in 1..AlgDim}
        \cup {[kind |-> "Vec", rows |-> r, cols |-> 1] : r \in 1..AlgDim}

\* the operand of shape sh built over the literal data
Operand(h, sh, data) ==
    IF sh.kind = "Dense"
    THEN NewDense(Alloc(h, data), sh.rows, sh.cols, SliceOf(h, data))
    ELSE LET r == NewVecDense(Alloc(h, data), sh.rows, SliceOf(h, data))
         IN  [err |-> r.err, h |-> r.h, m |-> r.vec]

\* the receivers: empty, sized over zeros, or one of the operands
Receivers(h, a, b) ==
    {[h |-> h, m |-> EmptyDense], [h |-> h, m |-> EmptyVec]}
        \cup {[h |-> NewDense(h, r, c, nilSlice).h, m |-> NewDense(h, r, c, nilSlice).m] :
                 r, c \in 1..AlgDim}
        \cup {[h |-> NewVecDense(h, n, nilSlice).h, m |-> NewVecDense(h, n, nilSlice).vec] :
                 n \in 1..AlgDim}
        \cup {[h |-> h, m |-> x] : x \in {y \in {a, b} : y.kind \in {"Dense", "VecDense"}}}

\* main: m2 := NewDense(3, 4, 1..12); m3 := m2.T(); var d mat.Dense, with
\* the operand pairs of d.Mul(m2, m3) and c.Add(m3, m3) (and m2 with itself,
\* the product main says is refused)
InitMain ==
    LET a == NewDense(Alloc(<<>>, Ramp(12)), 3, 4, SliceOf(<<>>, Ramp(12)))
    IN  /\ \E p \in {<<a.m, T(a.m)>>, <<a.m, a.m>>, <<T(a.m), T(a.m)>>} :
              m2 = p[1] /\ m3 = p[2]
        /\ heap = a.h
        /\ rcv = EmptyDense

\* main: v1 := NewVecDense(5, nil); v2 = NewVecDense(5, {1, 0, 2, 0, 3});
\* v = NewVecDense(5, nil), with the operand pairs of mat.Dot(v1, v2) and
\* mat.Dot(v2, v2)
InitMainVec ==
    LET v1 == NewVecDense(<<>>, 5, nilSlice)
        d2 == <<1, 0, 2, 0, 3>>
        v2 == NewVecDense(Alloc(v1.h, d2), 5, SliceOf(v1.h, d2))
        r == NewVecDense(v2.h, 5, nilSlice)
    IN  /\ \E p \in {<<v1.vec, v2.vec>>, <<v2.vec, v2.vec>>} :
              m2 = p[1] /\ m3 = p[2]
        /\ heap = r.h
        /\ rcv = r.vec

InitFamily ==
    \E sa \in OperandShapes :
        LET a == Operand(<<>>, sa, Ramp(sa.rows * sa.cols))
        IN  /\ m2 = a.m
            /\ \E sb \in OperandShapes \cup {[kind |-> "same"], [kind |-> "T"]} :
                  LET b == CASE sb.kind = "same" -> [h |-> a.h, m |-> a.m]
                             [] sb.kind = "T" -> [h |-> a.h, m |-> T(a.m)]
                             [] OTHER -> Operand(a.h, sb, Desc(sb.rows * sb.cols))
                  IN  /\ m3 = b.m
                      /\ \E r \in Receivers(b.h, a.m, b.m) :
                            /\ heap = r.h
                            /\ rcv = r.m

InitAlg ==
    /\ InitMain \/ InitMainVec \/ InitFamily
    /\ inp = Unused /\ res = Unused /\ nops = 0
    /\ ObjUnused
    /\ MainUnused
    /\ call = Untouched
    /\ err = NoErr

IsVector(x) == x.kind = "VecDense"

\* a call on the receiver returned r: the receiver and the heap are as the
\* call left them
Received(op, r) ==
    /\ nops < MaxOps
    /\ nops' = nops + 1
    /\ heap' = r.h
    /\ rcv' = r.m
    /\ err' = r.err
    /\ res' = Unused
    /\ call' = [op |-> op]
    /\ UNCHANGED <<mainVars, objVars, inp, m2, m3>>

\* a call without receiver returned r
Returned(op, i, r) ==
    /\ err' = r.err
    /\ res' = r.val
    /\ call' = [op |-> op, i |-> i]
    /\ UNCHANGED <<mainVars, objVars, heap, inp, m2, m3, rcv, nops>>

\* res := m2.T()
TStep ==
    /\ err' = NoErr
    /\ res' = T(m2)
    /\ call' = [op |-> "T"]
    /\ UNCHANGED <<mainVars, objVars, heap, inp, m2, m3, rcv, nops>>

AddStep == rcv.kind = "Dense" /\ Received("Add", Add(heap, rcv, m2, m3))

MulStep == rcv.kind = "Dense" /\ Received("Mul", Mul(heap, rcv, m2, m3))

MulElemStep == rcv.kind = "Dense" /\ Received("MulElem", MulElem(heap, rcv, m2, m3))

AddVecStep ==
    /\ IsVector(rcv) /\ IsVector(m2) /\ IsVector(m3)
    /\ Received("AddVec", AddVec(heap, rcv, m2, m3))

SubVecStep ==
    /\ IsVector(rcv) /\ IsVector(m2) /\ IsVector(m3)
    /\ Received("SubVec", SubVec(heap, rcv, m2, m3))

ScaleVecStep ==
    /\ IsVector(rcv) /\ IsVector(m3)
    /\ Received("ScaleVec", ScaleVec(heap, rcv, Scale, m3))

MulElemVecStep ==
    /\ IsVector(rcv) /\ IsVector(m2) /\ IsVector(m3)
    /\ Received("MulElemVec", MulElemVec(heap, rcv, m2, m3))

MulVecStep ==
    /\ IsVector(rcv) /\ IsVector(m3)
    /\ Received("MulVec", MulVec(heap, rcv, m2, m3))

DotStep == IsVector(m2) /\ IsVector(m3) /\ Returned("Dot", 0, Dot(heap, m2, m3))

MaxStep == Returned("Max", 0, Max(heap, m2))

MinStep == Returned("Min", 0, Min(heap, m2))

SumStep == Returned("Sum", 0, Sum(heap, m2))

ColStep == \E j \in -1..AlgDim : Returned("Col", j, Col(heap, j, m2))

RowStep == \E i \in -1..AlgDim : Returned("Row", i, Row(heap, i, m2))

NextAlg ==
    \/ TStep
    \/ AddStep
    \/ MulStep
    \/ MulElemStep
    \/ AddVecStep
    \/ SubVecStep
    \/ ScaleVecStep
    \/ MulElemVecStep
    \/ MulVecStep
    \/ DotStep
    \/ MaxStep
    \/ MinStep
    \/ SumStep
    \/ ColStep
    \/ RowStep

SpecAlg == InitAlg /\ [][NextAlg]_vars

\* the matrix written row by row as <<row, ..., row>>, indexed from 0
Matrix(rows) ==
    [i \in 0..(Len(rows) - 1) |-> [j \in 0..(Len(rows[1]) - 1) |-> rows[i + 1][j + 1]]]

\* x is the 3 x 4 matrix m2 of main
IsMainM2(h, x) ==
    /\ x.kind = "Dense"
    /\ Dims(x) = <<3, 4>>
    /\ Elements(h, x) = Matrix(<<<<1, 2, 3, 4>>, <<5, 6, 7, 8>>, <<9, 10, 11, 12>>>>)

\* x reads its storage through the array the receiver r writes
SharesStorage(x, r) == ~IsEmpty(r) /\ Untranspose(x).Data.arr = r.Data.arr

\* the operands of the call named op
OperandsOf(op) ==
    CASE op \in {"T", "Max", "Min", "Sum", "Col", "Row"} -> {m2}
      [] op = "ScaleVec" -> {m3}
      [] OTHER -> {m2, m3}

MulEffect ==
    (call'.op = "Mul" /\ err' = NoErr) =>
        /\ Dims(rcv') = <<Dims(m2)[1], Dims(m3)[2]>>
        /\ \A i \in 0..(Dims(m2)[1] - 1), j \in 0..(Dims(m3)[2] - 1) :
              At(heap', rcv', i, j) =
                  [err |-> NoErr,
                   val |-> SumTo([k \in 0..(Dims(m2)[2] - 1) |->
                                     At(heap, m2, i, k).val * At(heap, m3, k, j).val],
                                 Dims(m2)[2])]
        /\ (IsMainM2(heap, m2) /\ m3 = T(m2)) =>
              Elements(heap', rcv') =
                  Matrix(<<<<30, 70, 110>>, <<70, 174, 278>>, <<110, 278, 446>>>>)

\* C8: Mul(a, b) leaves the matrix product in the receiver: the receiver
\* has a.rows rows and b.cols columns and At(i,j) is the sum over k of
\* a.At(i,k) * b.At(k,j); the 3 x 4 matrix 1..12 times its transpose is
\* [[30,70,110],[70,174,278],[110,278,446]].
MulIsMatrixProduct == [][MulEffect]_vars

\* d.Mul(m2, m3) of main has returned the 3 x 3 product
MulMainDone ==
    /\ call.op = "Mul"
    /\ err = NoErr
    /\ IsMainM2(heap, m2)
    /\ m3 = T(m2)
    /\ Dims(rcv) = <<3, 3>>
    /\ At(heap, rcv, 2, 1).val = 278

Fits(r, n, c) == IsEmpty(r) \/ Dims(r) = <<n, c>>

TransposeSwaps ==
    call.op = "T" =>
        /\ Dims(res) = <<Dims(m2)[2], Dims(m2)[1]>>
        /\ \A i \in 0..(Dims(m2)[1] - 1), j \in 0..(Dims(m2)[2] - 1) :
              /\ At(heap, res, j, i).err = NoErr
              /\ At(heap, res, j, i).val = At(heap, m2, i, j).val
        /\ IsMainM2(heap, m2) =>
              Elements(heap, res) =
                  Matrix(<<<<1, 5, 9>>, <<2, 6, 10>>, <<3, 7, 11>>, <<4, 8, 12>>>>)
        /\ IsVector(m2) => Dims(res) = <<1, LenVec(m2)>>

\* m2.T() of main has returned the 4 x 3 view
TransposeMainDone ==
    /\ call.op = "T"
    /\ IsMainM2(heap, m2)
    /\ Dims(res) = <<4, 3>>
    /\ At(heap, res, 3, 0).val = 4

(***************************************************************************)
(* A matrix of any kind from its construction on (main: mat.NewDense,      *)
(* mat.NewVecDense, mat.NewSymDense, mat.NewDiagDense, mat.NewTriDense),   *)
(* its transposed view (m3 := m2.T(), s.T(), t1.T()) and the view's own    *)
(* T(), and a zero-value receiver (var c mat.Dense) on its first uses      *)
(* (c.Add(m3, m3), d.Mul(m2, m3), e.MulElem(m3, m3)).                      *)
(***************************************************************************)
\* the number of times T() is applied in a row
MaxT == 3

Kinds == {"Dense", "VecDense", "SymDense", "DiagDense", Upper, Lower}

\* the columns of the initializer: any for a dense matrix, one for a
\* vector and a diagonal, as many as rows for a symmetric or triangular one
ColsOf(kind, n) ==
    CASE kind = "Dense" -> 0..MaxSize
      [] kind \in {"VecDense", "DiagDense"} -> {1}
      [] OTHER -> {n}

\* the data argument of the constructor
DataArg == IF inp.data = "nil" THEN nilSlice ELSE SliceOf(<<>>, Literal(inp))

InitMat ==
    /\ \E kind \in Kinds, n \in 0..MaxSize, d \in {"nil", "ramp", "desc", "short"} :
          \E c \in ColsOf(kind, n) :
              inp = [kind |-> kind, rows |-> n, cols |-> c, data |-> d]
    /\ heap = IF inp.data = "nil" THEN <<>> ELSE Alloc(<<>>, Literal(inp))
    /\ m2 = Unused /\ m3 = Unused /\ res = Unused /\ nops = 0
    /\ rcv = EmptyDense
    /\ ObjUnused
    /\ MainUnused
    /\ call = Untouched
    /\ err = NoErr

\* m2 := the constructor op, which returned or panicked as r tells
Constructed(op, r) ==
    /\ call = Untouched
    /\ heap' = r.h
    /\ err' = r.err
    /\ m2' = r.m
    /\ call' = [op |-> op, i |-> inp.rows, k |-> inp.cols]
    /\ UNCHANGED <<mainVars, objVars, inp, m3, rcv, res, nops>>

NewVecDenseStep ==
    /\ inp.kind = "VecDense"
    /\ LET r == NewVecDense(heap, inp.rows, DataArg)
       IN  Constructed("NewVecDense", [err |-> r.err, h |-> r.h, m |-> r.vec])

NewSymDenseStep ==
    /\ inp.kind = "SymDense"
    /\ Constructed("NewSymDense", NewSymDense(heap, inp.rows, DataArg))

NewDiagDenseStep ==
    /\ inp.kind = "DiagDense"
    /\ Constructed("NewDiagDense", NewDiagDense(heap, inp.rows, DataArg))

NewTriDenseStep ==
    /\ inp.kind \in {Upper, Lower}
    /\ Constructed("NewTriDense", NewTriDense(heap, inp.rows, inp.kind, DataArg))

\* m3 := m2.T()
TOfM2 ==
    /\ m2 # Unused
    /\ call.op # "T"
    /\ m3' = T(m2)
    /\ err' = NoErr
    /\ call' = [op |-> "T", i |-> 1]
    /\ UNCHANGED <<mainVars, objVars, heap, inp, m2, rcv, res, nops>>

\* m3 = m3.T()
TOfM3 ==
    /\ call.op = "T"
    /\ call.i < MaxT
    /\ m3' = T(m3)
    /\ err' = NoErr
    /\ call' = [op |-> "T", i |-> call.i + 1]
    /\ UNCHANGED <<mainVars, objVars, heap, inp, m2, rcv, res, nops>>

\* A DiagView that steps through Data one element at a time.
DiagViewOfFirstRow(x) ==
    LET n == IF Dims(x)[1] < Dims(x)[2] THEN Dims(x)[1] ELSE Dims(x)[2]
    IN  [kind |-> "DiagDense", N |-> n, Inc |-> 1,
         Data |-> SubSlice(x.Data, 0, (n - 1) * x.Stride + n)]

\* (*Dense).DiagView, (*TriDense).DiagView: the diagonal as a DiagDense
\* over the matrix's own data, one element every Stride + 1
DiagView(x) ==
    LET n == IF Dims(x)[1] < Dims(x)[2] THEN Dims(x)[1] ELSE Dims(x)[2]
    IN  [kind |-> "DiagDense", N |-> n, Inc |-> x.Stride + 1,
         Data |-> SubSlice(x.Data, 0, (n - 1) * x.Stride + n)]

\* m3 := m2.DiagView()
DiagViewStep ==
    /\ m2 # Unused
    /\ m2.kind \in {"Dense", "TriDense"}
    /\ m3' = DiagView(m2)
    /\ err' = NoErr
    /\ call' = [op |-> "DiagView", i |-> 0]
    /\ UNCHANGED <<mainVars, objVars, heap, inp, m2, rcv, res, nops>>

NextMat ==
    \/ DiagViewStep
    \/ inp.kind = "Dense" /\ NewDenseStep
    \/ NewVecDenseStep
    \/ NewSymDenseStep
    \/ NewDiagDenseStep
    \/ NewTriDenseStep
    \/ TOfM2
    \/ TOfM3
    \/ m3 # Unused /\ AddStep
    \/ m3 # Unused /\ MulStep
    \/ m3 # Unused /\ MulElemStep

SpecMat == InitMat /\ [][NextMat]_vars

\* C11: T() applied twice gives the matrix back: for a Dense, SymDense or
\* TriDense m2, m2.T().T() has the dimensions of m2 and reads as m2 at
\* every position, a twice transposed Upper matrix is Upper and a twice
\* transposed Lower matrix is Lower; s.T() of a symmetric matrix reads as s
\* at every position.
TransposeInvolution ==
    (call.op = "T" /\ m2.kind \in {"Dense", "SymDense", "TriDense"}) =>
        /\ call.i = 2 =>
              /\ Dims(m3) = Dims(m2)
              /\ Elements(heap, m3) = Elements(heap, m2)
              /\ m2.kind = "TriDense" => (m3.kind = "TriDense" /\ m3.Uplo = m2.Uplo)
        /\ m2.kind = "SymDense" =>
              /\ Dims(m3) = Dims(m2)
              /\ Elements(heap, m3) = Elements(heap, m2)

\* t1 := NewTriDense(3, Upper, 1..9) after t1.T().T()
TransposedTwice ==
    /\ call = [op |-> "T", i |-> 2]
    /\ m2.kind = "TriDense"
    /\ m2.N = 3
    /\ m2.Uplo = Upper
    /\ inp.data = "ramp"
    /\ At(heap, m3, 0, 2).val = 3
    /\ At(heap, m3, 2, 0).val = 0

\* the vector a SliceVec step slices
Origin == IF call'.op = "v.SliceVec" THEN v ELSE w

\* what a SliceVec(i, k) step that returned has put in w
SliceVecEffect ==
    (call'.op \in {"v.SliceVec", "w.SliceVec"} /\ err' = NoErr) =>
        /\ LenVec(w') = call'.k - call'.i
        /\ \A j \in 0..(call'.k - call'.i - 1) :
              call'.i + j < LenVec(Origin) =>
                  AtVec(heap', w', j) =
                      [err |-> NoErr, val |-> AtVec(heap, Origin, call'.i + j).val]
        /\ (call' = [op |-> "v.SliceVec", i |-> 4, k |-> 6] /\ Written(heap) = 0) =>
              /\ AtVec(heap', w', 0).val = 5
              /\ AtVec(heap', w', 1).val = 6

\* C12: SliceVec(start, end) selects the half-open range [start, end): a
\* call that returns gives a vector of length end - start whose element i
\* is the origin's element start + i, so the element at start is included
\* and the one at end is not; v10.SliceVec(4, 6) of 1..10 is [5, 6].
SliceVecHalfOpen == [][SliceVecEffect]_vars

\* vslice := v10.SliceVec(4, 6) has returned [5, 6]
SliceMainDone ==
    /\ call = [op |-> "v.SliceVec", i |-> 4, k |-> 6]
    /\ err = NoErr
    /\ LenVec(w) = 2
    /\ AtVec(heap, w, 0).val = 5
    /\ AtVec(heap, w, 1).val = 6

\* a SliceVec(i, k) step is made
Slicing == call'.op \in {"v.SliceVec", "w.SliceVec"}

Room == IF call'.op = "v.SliceVec" THEN VecLen ELSE VecLen - wfrom

Positive(x) == Dims(x)[1] > 0 /\ Dims(x)[2] > 0

\* the matrix m2 and its view m3, once they exist, have rows and columns,
\* as many rows as columns for a symmetric, diagonal or triangular m2
BuiltPositive ==
    /\ m2 # Unused =>
          /\ Positive(m2)
          /\ m2.kind \in {"SymDense", "DiagDense", "TriDense"} => Dims(m2)[1] = Dims(m2)[2]
    /\ m3 # Unused => Positive(m3)

\* C15 as stated: every matrix and vector that exists has r > 0 rows and
\* c > 0 columns, the receivers c, d and e before their first use included,
\* and every symmetric, diagonal and triangular matrix has r = c.
AllPositive == BuiltPositive /\ Positive(rcv)

\* C15 as amended: every matrix and vector returned by a constructor or by
\* T() has r > 0 rows and c > 0 columns (a constructor given no rows or no
\* columns panics with ErrZeroLength and returns nothing), with r = c for
\* a symmetric, diagonal or triangular one; a receiver declared as
\* var c mat.Dense is empty, 0 x 0, until its first call returns and has
\* r > 0 and c > 0 from then on.
PositiveOnceBuilt ==
    /\ BuiltPositive
    /\ (call.op \in {"NewDense", "NewVecDense", "NewSymDense", "NewDiagDense", "NewTriDense"}
            /\ (inp.rows = 0 \/ inp.cols = 0)) => (err = "ErrZeroLength" /\ m2 = Unused)
    /\ nops = 0 => (IsEmpty(rcv) /\ Dims(rcv) = <<0, 0>>)
    /\ (call.op \in {"Add", "Mul", "MulElem"} /\ err = NoErr) => Positive(rcv)
    /\ IsEmpty(rcv) \/ Positive(rcv)

\* var c mat.Dense after its first call, c.Add(s, s.T()) on a symmetric s
\* of size 3, has returned
ReceiverSized ==
    /\ call.op = "Add"
    /\ err = NoErr
    /\ nops = 1
    /\ m2.kind = "SymDense"
    /\ Dims(rcv) = <<3, 3>>

\* element k (counted from 0) of the initializer, 0 for a nil initializer
Initial(k) == IF inp.data = "nil" THEN 0 ELSE Literal(inp)[k + 1]

\* C16: NewSymDense(n, initial) takes n*n values and keeps the upper
\* triangle with the diagonal: At(i,j) = initial[i*n+j] for i <= j and
\* At(i,j) = initial[j*n+i] for i > j, whatever the values given for the
\* lower triangle; NewSymDense(3, 1..9) reads [[1,2,3],[2,5,6],[3,6,9]].
SymKeepsUpper ==
    /\ (call.op = "NewSymDense" /\ inp.rows > 0) =>
          err = IF inp.data = "short" THEN "ErrShape" ELSE NoErr
    /\ (m2 # Unused /\ m2.kind = "SymDense") =>
          /\ Dims(m2) = <<inp.rows, inp.rows>>
          /\ \A i, j \in 0..(inp.rows - 1) :
                At(heap, m2, i, j) =
                    [err |-> NoErr,
                     val |-> Initial(IF i <= j THEN i * inp.rows + j ELSE j * inp.rows + i)]
          /\ (inp.rows = 3 /\ inp.data = "ramp") =>
                Elements(heap, m2) = Matrix(<<<<1, 2, 3>>, <<2, 5, 6>>, <<3, 6, 9>>>>)

\* s := NewSymDense(3, 1..9) has returned
SymBuilt ==
    /\ call.op = "NewSymDense"
    /\ err = NoErr
    /\ inp.rows = 3
    /\ inp.data = "ramp"
    /\ At(heap, m2, 2, 1).val = 6
    /\ At(heap, m2, 1, 2).val = 6

\* C17: NewTriDense(n, kind, initial) takes n*n values and keeps the
\* entries of the chosen triangle: for Upper At(i,j) = initial[i*n+j] when
\* i <= j and 0 otherwise, for Lower At(i,j) = initial[i*n+j] when i >= j
\* and 0 otherwise; from 1..9 Upper reads [[1,2,3],[0,5,6],[0,0,9]] and
\* Lower reads [[1,0,0],[4,5,0],[7,8,9]].
TriKeepsTriangle ==
    /\ (call.op = "NewTriDense" /\ inp.rows > 0) =>
          err = IF inp.data = "short" THEN "ErrShape" ELSE NoErr
    /\ (m2 # Unused /\ m2.kind = "TriDense") =>
          /\ Dims(m2) = <<inp.rows, inp.rows>>
          /\ m2.Uplo = inp.kind
          /\ \A i, j \in 0..(inp.rows - 1) :
                At(heap, m2, i, j) =
                    [err |-> NoErr,
                     val |-> IF (inp.kind = Upper /\ i <= j) \/ (inp.kind = Lower /\ i >= j)
                             THEN Initial(i * inp.rows + j) ELSE 0]
          /\ (inp.rows = 3 /\ inp.data = "ramp" /\ inp.kind = Upper) =>
                Elements(heap, m2) = Matrix(<<<<1, 2, 3>>, <<0, 5, 6>>, <<0, 0, 9>>>>)
          /\ (inp.rows = 3 /\ inp.data = "ramp" /\ inp.kind = Lower) =>
                Elements(heap, m2) = Matrix(<<<<1, 0, 0>>, <<4, 5, 0>>, <<7, 8, 9>>>>)

\* t2 := NewTriDense(3, Lower, 1..9) has returned
TriBuilt ==
    /\ call.op = "NewTriDense"
    /\ err = NoErr
    /\ inp.rows = 3
    /\ inp.data = "ramp"
    /\ inp.kind = Lower
    /\ At(heap, m2, 2, 1).val = 8
    /\ At(heap, m2, 1, 2).val = 0

\* C18: T() of a triangular matrix flips the triangle and mirrors the
\* values across the diagonal: t.T().At(i,j) = t.At(j,i) for all i, j, the
\* transpose of an Upper matrix is zero above the diagonal (Lower) and the
\* transpose of a Lower matrix is zero below it (Upper); t1.T() reads
\* [[1,0,0],[2,5,0],[3,6,9]] and t2.T() reads [[1,4,7],[0,5,8],[0,0,9]].
TriTransposeFlips ==
    (call = [op |-> "T", i |-> 1] /\ m2.kind = "TriDense") =>
        /\ Dims(m3) = Dims(m2)
        /\ \A i, j \in 0..(m2.N - 1) :
              /\ At(heap, m3, i, j) = [err |-> NoErr, val |-> At(heap, m2, j, i).val]
              /\ (m2.Uplo = Upper /\ i < j) => At(heap, m3, i, j).val = 0
              /\ (m2.Uplo = Lower /\ i > j) => At(heap, m3, i, j).val = 0
        /\ (inp.rows = 3 /\ inp.data = "ramp" /\ inp.kind = Upper) =>
              Elements(heap, m3) = Matrix(<<<<1, 0, 0>>, <<2, 5, 0>>, <<3, 6, 9>>>>)
        /\ (inp.rows = 3 /\ inp.data = "ramp" /\ inp.kind = Lower) =>
              Elements(heap, m3) = Matrix(<<<<1, 4, 7>>, <<0, 5, 8>>, <<0, 0, 9>>>>)

\* t1.T() of t1 := NewTriDense(3, Upper, 1..9) has returned
TriTransposed ==
    /\ call = [op |-> "T", i |-> 1]
    /\ m2.kind = "TriDense"
    /\ inp.rows = 3
    /\ inp.data = "ramp"
    /\ inp.kind = Upper
    /\ At(heap, m3, 2, 0).val = 3
    /\ At(heap, m3, 0, 2).val = 0

\* what an Add call has left in the receiver, read against the operands as
\* they were before the call
AddEffect ==
    call'.op = "Add" =>
        /\ Dims(m2) # Dims(m3) => (err' = "ErrShape" /\ rcv' = rcv /\ heap' = heap)
        /\ err' = NoErr =>
              /\ Dims(rcv') = Dims(m2)
              /\ \A i \in 0..(Dims(m2)[1] - 1), j \in 0..(Dims(m2)[2] - 1) :
                    At(heap', rcv', i, j) =
                        [err |-> NoErr,
                         val |-> At(heap, m2, i, j).val + At(heap, m3, i, j).val]
        /\ (IsEmpty(rcv) /\ m3 = m2 /\ m2.kind = "Transpose" /\ IsMainM2(heap, m2.Matrix)) =>
              /\ err' = NoErr
              /\ Elements(heap', rcv') =
                    Matrix(<<<<2, 10, 18>>, <<4, 12, 20>>, <<6, 14, 22>>, <<8, 16, 24>>>>)

\* C19: Add(a, b) leaves the elementwise sum in the receiver: the receiver
\* has the shape of the operands and At(i,j) = a.At(i,j) + b.At(i,j); the
\* call panics with ErrShape when the dimensions of a and b differ; adding
\* the 4 x 3 transpose m3 to itself gives
\* [[2,10,18],[4,12,20],[6,14,22],[8,16,24]].
AddIsElementwiseSum == [][AddEffect]_vars

\* c.Add(m3, m3) of main has returned the 4 x 3 sum
AddMainDone ==
    /\ call.op = "Add"
    /\ err = NoErr
    /\ m3 = m2
    /\ m2.kind = "Transpose"
    /\ Dims(rcv) = <<4, 3>>
    /\ At(heap, rcv, 3, 2).val = 24
    /\ At(heap, rcv, 0, 1).val = 10

\* x reads as the column written as the tuple col
ReadsAs(h, x, col) ==
    /\ LenVec(x) = Len(col)
    /\ \A i \in 0..(Len(col) - 1) : AtVec(h, x, i).val = col[i + 1]

\* C20: Dot(a, b) of two vectors of equal length returns the sum over i of
\* a[i]*b[i] and panics with ErrShape when the lengths differ;
\* Dot([0,0,0,0,0], [1,0,2,0,3]) = 0 and Dot([1,0,2,0,3], [1,0,2,0,3]) = 14.
DotIsSumOfProducts ==
    call.op = "Dot" =>
        /\ LenVec(m2) # LenVec(m3) => err = "ErrShape"
        /\ LenVec(m2) = LenVec(m3) =>
              /\ err = NoErr
              /\ res = SumTo([i \in 0..(LenVec(m2) - 1) |->
                                 AtVec(heap, m2, i).val * AtVec(heap, m3, i).val],
                             LenVec(m2))
        /\ (ReadsAs(heap, m2, <<0, 0, 0, 0, 0>>) /\ ReadsAs(heap, m3, <<1, 0, 2, 0, 3>>)) =>
              res = 0
        /\ (ReadsAs(heap, m2, <<1, 0, 2, 0, 3>>) /\ ReadsAs(heap, m3, <<1, 0, 2, 0, 3>>)) =>
              res = 14

\* s2 := mat.Dot(v2, v2) of main has returned 14
DotMainDone ==
    /\ call.op = "Dot"
    /\ err = NoErr
    /\ ReadsAs(heap, m2, <<1, 0, 2, 0, 3>>)
    /\ ReadsAs(heap, m3, <<1, 0, 2, 0, 3>>)
    /\ res = 14

\* C22: DiagView() of a square Dense or of a TriDense m returns a matrix
\* of the same shape with At(i,i) = m.At(i,i) and At(i,j) = 0 for i # j;
\* for NewDense(3, 3, 1..9) and for the Upper and the Lower NewTriDense(3,
\* ..., 1..9) the view reads [[1,0,0],[0,5,0],[0,0,9]].
DiagViewKeepsDiagonal ==
    (call.op = "DiagView" /\ Dims(m2)[1] = Dims(m2)[2]) =>
        /\ Dims(m3) = Dims(m2)
        /\ \A i, j \in 0..(Dims(m2)[1] - 1) :
              At(heap, m3, i, j) =
                  [err |-> NoErr, val |-> IF i = j THEN At(heap, m2, i, i).val ELSE 0]
        /\ (inp.rows = 3 /\ inp.data = "ramp") =>
              Elements(heap, m3) = Matrix(<<<<1, 0, 0>>, <<0, 5, 0>>, <<0, 0, 9>>>>)

\* dense4.DiagView() of dense4 := NewDense(3, 3, 1..9) has returned
DiagViewTaken ==
    /\ call.op = "DiagView"
    /\ inp = [kind |-> "Dense", rows |-> 3, cols |-> 3, data |-> "ramp"]
    /\ At(heap, m3, 1, 1).val = 5
    /\ At(heap, m3, 2, 2).val = 9
    /\ At(heap, m3, 1, 2).val = 0

(***************************************************************************)
(* The program: func main() of gonum_output_as_comments.go, statement by   *)
(* statement.  A statement is a record of its source line, the operation   *)
(* it calls, the variable it assigns and its arguments.  Variables are     *)
(* named as in main; dst is "_n", "_x" or "_m" for a number, a tuple or a  *)
(* matrix passed straight to the next call, and "" for none.  A statement  *)
(* that nests a call in a print is two statements; the for loops are       *)
(* unrolled.                                                               *)
(***************************************************************************)
Ins(line, op, dst, args) == [line |-> line, op |-> op, dst |-> dst, args |-> args]

\* a nil []float64
Nil == <<>>

\* 1.0/float64(i): the quotients are no integers (and +Inf for i = 0); main
\* only stores and prints them, so each is kept as a number of its own that
\* no other value of main equals
Quotient(i) == 1000000 + i

\* the rows and columns of big: 100 in main (lines 90 and 94), bounded here;
\* the loop that sets its diagonal runs as many times
BigDim == 8

\* lines 73-244: dense matrices, T, Add, Mul, MulElem
ProgDense ==
    <<Ins(73, "NewDense", "zero", <<5, 6, Nil>>),
      Ins(77, "Println", "", <<"zero">>),
      Ins(82, "NewDense", "mat2", <<3, 4, Ramp(12)>>),
      Ins(83, "Println", "", <<"mat2">>),
      Ins(90, "NewDense", "big", <<BigDim, BigDim, Nil>>)>>
    \o [i \in 1..BigDim |-> Ins(95, "Set", "", <<"big", i - 1, i - 1, 1>>)]
    \o
    <<Ins(100, "Println", "", <<"big">>),
      Ins(114, "Excerpt", "", <<"big", 3>>),
      Ins(132, "Excerpt", "", <<"big", 5>>),
      Ins(160, "var", "c", <<>>),
      Ins(163, "NewDense", "m1", <<3, 4, Nil>>),
      Ins(164, "NewDense", "m2", <<3, 4, Ramp(12)>>),
      Ins(167, "Formatted", "", <<"m1">>),
      Ins(168, "Formatted", "", <<"m2">>),
      Ins(187, "T", "m3", <<"m2">>),
      Ins(188, "Formatted", "", <<"m3">>),
      Ins(203, "Add", "", <<"c", "m3", "m3">>),
      Ins(204, "Formatted", "", <<"c">>),
      Ins(226, "var", "d", <<>>),
      Ins(227, "Mul", "", <<"d", "m2", "m3">>),
      Ins(228, "Formatted", "", <<"d">>),
      Ins(242, "var", "e", <<>>),
      Ins(243, "MulElem", "", <<"e", "m3", "m3">>),
      Ins(244, "Formatted", "", <<"e">>)>>

\* lines 267-359: vectors, Len, Cap, Dims, T, SliceVec
ProgVec ==
    <<Ins(267, "NewVecDense", "v", <<VecLen, Nil>>),
      Ins(270, "Formatted", "", <<"v">>),
      Ins(291, "NewVecDense", "v2", <<VecLen, Ramp(VecLen)>>),
      Ins(292, "Formatted", "", <<"v2">>),
      Ins(309, "Len", "_n", <<"v">>),
      Ins(309, "Println", "", <<"_n">>),
      Ins(310, "Cap", "_n", <<"v">>),
      Ins(310, "Println", "", <<"_n">>),
      Ins(313, "Dims", "_x", <<"v">>),
      Ins(313, "Println", "", <<"_x">>),
      Ins(316, "T", "vt", <<"v">>),
      Ins(317, "Formatted", "", <<"vt">>),
      Ins(338, "NewVecDense", "v10", <<VecLen, Ramp(VecLen)>>),
      Ins(342, "SliceVec", "vslice", <<"v10", 4, 6>>),
      Ins(345, "Formatted", "", <<"vslice">>),
      Ins(358, "SliceVec", "vcopy", <<"v", 0, 9>>),
      Ins(359, "Formatted", "", <<"vcopy">>)>>

\* lines 380-386: the recovery handler is registered; line 386 is commented
\* out in main and is executed only when it is enabled
ProgDefer(enabled) ==
    <<Ins(380, "defer", "", <<>>)>>
    \o (IF enabled = "SliceVec" THEN <<Ins(386, "SliceVec", "_m", <<"v", 0, -1>>)>> ELSE <<>>)

\* lines 393-464: a view and its origin, SetVec, At, AtVec; the loops run
\* over v3.Len() = 10 and over w.Len() = 9
ProgView ==
    <<Ins(393, "NewVecDense", "v", <<VecLen, Ramp(VecLen)>>),
      Ins(394, "SliceVec", "w", <<"v", 0, 9>>),
      Ins(395, "SetVec", "", <<"v", 5, SetVal>>),
      Ins(398, "Formatted", "", <<"w">>),
      Ins(420, "NewVecDense", "v3", <<VecLen, Ramp(VecLen)>>)>>
    \o [i \in 1..VecLen |-> Ins(422, "SetVec", "", <<"v3", i - 1, Quotient(i - 1)>>)]
    \o <<Ins(426, "Formatted", "", <<"v3">>)>>
    \o [k \in 1..(2 * VecLen) |->
           IF k % 2 = 1 THEN Ins(445, "At", "_n", <<"v3", (k - 1) \div 2, 0>>)
           ELSE Ins(445, "Println", "", <<"_n">>)]
    \o [k \in 1..(2 * (VecLen - 1)) |->
           IF k % 2 = 1 THEN Ins(464, "AtVec", "_n", <<"w", (k - 1) \div 2>>)
           ELSE Ins(464, "Println", "", <<"_n">>)]

\* lines 484-621: operations on vectors
ProgVecOps ==
    <<Ins(484, "NewVecDense", "v1", <<5, Nil>>),
      Ins(485, "NewVecDense", "v2", <<5, <<1, 0, 2, 0, 3>>>>),
      Ins(486, "Formatted", "", <<"v1">>),
      Ins(487, "Formatted", "", <<"v2">>),
      Ins(503, "NewVecDense", "v", <<5, Nil>>),
      Ins(508, "AddVec", "", <<"v", "v1", "v2">>),
      Ins(509, "Formatted", "", <<"v">>),
      Ins(519, "AddVec", "", <<"v", "v2", "v2">>),
      Ins(520, "Formatted", "", <<"v">>),
      Ins(532, "SubVec", "", <<"v", "v1", "v2">>),
      Ins(533, "Formatted", "", <<"v">>),
      Ins(546, "ScaleVec", "", <<"v", Scale, "v2">>),
      Ins(547, "Formatted", "", <<"v">>),
      Ins(560, "MulElemVec", "", <<"v", "v2", "v2">>),
      Ins(561, "Formatted", "", <<"v">>),
      Ins(577, "NewDense", "m", <<3, 3, <<1, 0, 0, 0, 1, 0, 0, 0, 1>>>>),
      Ins(578, "NewVecDense", "v4", <<3, <<2, 3, 4>>>>),
      Ins(579, "NewVecDense", "v5", <<3, Nil>>),
      Ins(580, "MulVec", "", <<"v5", "m", "v4">>),
      Ins(581, "Formatted", "", <<"v5">>),
      Ins(590, "NewDense", "m5", <<3, 3, <<0, -1, 0, 1, 0, 0, 0, 0, 1>>>>),
      Ins(591, "MulVec", "", <<"v5", "m5", "v5">>),
      Ins(592, "Formatted", "", <<"v5">>),
      Ins(603, "Dot", "s1", <<"v1", "v2">>),
      Ins(604, "Dot", "s2", <<"v2", "v2">>),
      Ins(605, "Println", "", <<"s1">>),
      Ins(606, "Println", "", <<"s2">>),
      Ins(613, "Max", "_n", <<"v">>),
      Ins(613, "Println", "", <<"_n">>),
      Ins(614, "Min", "_n", <<"v">>),
      Ins(614, "Println", "", <<"_n">>),
      Ins(621, "Sum", "_n", <<"v">>),
      Ins(621, "Println", "", <<"_n">>)>>

\* lines 629-736: more dense matrices, Col, Row, Det, Min, Max, Sum, DiagView
ProgReduce ==
    <<Ins(629, "NewDense", "dense1", <<6, 5, Nil>>),
      Ins(630, "Formatted", "", <<"dense1">>),
      Ins(641, "NewDense", "dense2", <<4, 3, Ramp(12)>>),
      Ins(642, "Formatted", "", <<"dense2">>),
      Ins(651, "NewDense", "dense3", <<3, 4, Ramp(12)>>),
      Ins(652, "Formatted", "", <<"dense3">>),
      Ins(660, "NewDense", "dense4", <<3, 3, Ramp(9)>>),
      Ins(661, "Formatted", "", <<"dense4">>),
      Ins(672, "Col", "_x", <<0, "dense4">>),
      Ins(672, "Println", "", <<"_x">>),
      Ins(676, "Col", "_x", <<1, "dense4">>),
      Ins(676, "Println", "", <<"_x">>),
      Ins(680, "Col", "_x", <<2, "dense4">>),
      Ins(680, "Println", "", <<"_x">>),
      Ins(690, "Row", "_x", <<0, "dense4">>),
      Ins(690, "Println", "", <<"_x">>),
      Ins(694, "Row", "_x", <<1, "dense4">>),
      Ins(694, "Println", "", <<"_x">>),
      Ins(698, "Row", "_x", <<2, "dense4">>),
      Ins(698, "Println", "", <<"_x">>),
      Ins(707, "Det", "_n", <<"dense4">>),
      Ins(707, "Println", "", <<"_n">>),
      Ins(718, "Min", "_n", <<"dense4">>),
      Ins(718, "Println", "", <<"_n">>),
      Ins(722, "Max", "_n", <<"dense4">>),
      Ins(722, "Println", "", <<"_n">>),
      Ins(726, "Sum", "_n", <<"dense4">>),
      Ins(726, "Println", "", <<"_n">>),
      Ins(736, "DiagView", "_m", <<"dense4">>),
      Ins(736, "Formatted", "", <<"_m">>)>>

\* lines 753-841: symmetric and diagonal matrices
ProgSymDiag ==
    <<Ins(753, "NewSymDense", "s", <<3, Ramp(9)>>),
      Ins(755, "Formatted", "", <<"s">>),
      Ins(765, "Caps", "_x", <<"s">>),
      Ins(766, "Dims", "_x", <<"s">>),
      Ins(769, "T", "_m", <<"s">>),
      Ins(769, "Formatted", "", <<"_m">>),
      Ins(780, "SetSym", "", <<"s", 1, 0, SymVal>>),
      Ins(781, "Formatted", "", <<"s">>),
      Ins(792, "NewDiagDense", "d1", <<VecLen, Nil>>),
      Ins(793, "Formatted", "", <<"d1">>),
      Ins(809, "NewDiagDense", "d2", <<VecLen, Ramp(VecLen)>>),
      Ins(810, "Formatted", "", <<"d2">>),
      Ins(826, "Diag", "_n", <<"d2">>),
      Ins(831, "Dims", "_x", <<"d2">>),
      Ins(839, "NewDiagDense", "d3", <<VecLen, Ramp(VecLen)>>),
      Ins(840, "SetDiag", "", <<"d3", 1, SetVal>>),
      Ins(841, "Formatted", "", <<"d3">>)>>

\* lines 869-930: triangular matrices; line 922 is commented out in main
\* and is executed only when it is enabled
ProgTri(enabled) ==
    <<Ins(869, "NewTriDense", "t1", <<3, Upper, Ramp(9)>>),
      Ins(870, "Formatted", "", <<"t1">>),
      Ins(879, "NewTriDense", "t2", <<3, Lower, Ramp(9)>>),
      Ins(880, "Formatted", "", <<"t2">>),
      Ins(888, "DiagView", "_m", <<"t1">>),
      Ins(888, "Formatted", "", <<"_m">>),
      Ins(895, "DiagView", "_m", <<"t2">>),
      Ins(895, "Formatted", "", <<"_m">>),
      Ins(904, "T", "_m", <<"t1">>),
      Ins(904, "Formatted", "", <<"_m">>),
      Ins(911, "T", "_m", <<"t2">>),
      Ins(911, "Formatted", "", <<"_m">>),
      Ins(921, "NewTriDense", "t3", <<3, Upper, Ramp(9)>>)>>
    \o (IF enabled = "SetTri" THEN <<Ins(922, "SetTri", "", <<"t3", 2, 0, SetVal>>)>> ELSE <<>>)
    \o
    <<Ins(929, "SetTri", "", <<"t3", 0, 2, SetVal>>),
      Ins(930, "Formatted", "", <<"t3">>)>>

\* the statements of main in order
Prog(enabled) ==
    ProgDense \o ProgVec \o ProgDefer(enabled) \o ProgView \o ProgVecOps
        \o ProgReduce \o ProgSymDiag \o ProgTri(enabled)

(***************************************************************************)
(* The remaining calls of main: reads of sizes, the determinant and the    *)
(* formatter's excerpt.                                                    *)
(***************************************************************************)
\* (*SymDense).Caps()
Caps(x) == <<x.Data.cap \div x.Stride, x.Data.cap \div x.Stride>>

\* (*DiagDense).Diag(): the length of the diagonal
Diag(x) == x.N

\* the matrix F without row 0 and column j
Minor(F, n, j) ==
    [i \in 0..(n - 2) |-> [k \in 0..(n - 2) |-> F[i + 1][IF k < j THEN k ELSE k + 1]]]

RECURSIVE Determinant(_, _)
\* the determinant of the n x n matrix F, expanded along row 0
Determinant(F, n) ==
    IF n = 1 THEN F[0][0]
    ELSE SumTo([j \in 0..(n - 1) |->
                   (IF j % 2 = 0 THEN 1 ELSE -1) * F[0][j] * Determinant(Minor(F, n, j), n - 1)],
               n)

\* mat.Det(a): the exact determinant; the library computes it in float64
\* from an LU factorization, so what it returns is this value up to
\* rounding (for dense4: 6.66e-16 where the determinant is 0)
Det(h, a) ==
    IF Dims(a)[1] # Dims(a)[2] THEN [err |-> "ErrSquare", val |-> 0]
    ELSE IF Dims(a)[1] = 0 THEN [err |-> NoErr, val |-> 1]
    ELSE [err |-> NoErr, val |-> Determinant(Elements(h, a), Dims(a)[1])]

\* mat.Formatted(a, mat.Excerpt(n)): the shape and the first and last n
\* rows and columns of a
Excerpt(h, a, n) ==
    LET shown(d) == {i \in 0..(d - 1) : i < n \/ i >= d - n}
    IN  [dims |-> Dims(a),
         cells |-> [i \in shown(Dims(a)[1]) |-> [j \in shown(Dims(a)[2]) |-> At(h, a, i, j).val]]]

(***************************************************************************)
(* The execution of one statement of main on the heap h and the local      *)
(* variables e: the panic raised (or none), the heap and the variables     *)
(* after it, and the text it writes to standard output, if any.            *)
(***************************************************************************)
\* name := val (nothing for a call statement)
Bind(e, name, val) ==
    IF name = "" THEN e
    ELSE [n \in (DOMAIN e) \cup {name} |-> IF n = name THEN val ELSE e[n]]

\* the heap once the []float64 literal of a constructor call is evaluated
WithData(h, data) == IF data = Nil THEN h ELSE Alloc(h, data)

\* the slice that literal evaluates to
DataSlice(h, data) == IF data = Nil THEN nilSlice ELSE SliceOf(h, data)

\* dst := f(...) where the call ended in panic p on heap h2 and returned val;
\* a panicking call assigns nothing
Assigned(p, h2, e, dst, val) ==
    [err |-> p, h |-> h2, e |-> IF p = NoErr THEN Bind(e, dst, val) ELSE e,
     prints |-> FALSE, text |-> ""]

\* fmt.Println(text)
Printed(h, e, text) == [err |-> NoErr, h |-> h, e |-> e, prints |-> TRUE, text |-> text]

Exec(h, e, ins) ==
    LET A == ins.args
        X(k) == e[A[k]]
        \* a call whose receiver A[1] holds the result r
        Receiver(r) == [err |-> r.err, h |-> r.h, e |-> Bind(e, A[1], r.m),
                        prints |-> FALSE, text |-> ""]
        \* a constructor call that returned r
        New(r) == Assigned(r.err, r.h, e, ins.dst, r.m)
        \* a call that wrote through its receiver and returned nothing
        Wrote(r) == Assigned(r.err, r.h, e, "", 0)
        \* a call that returned the value r.val
        Value(r) == Assigned(r.err, h, e, ins.dst, r.val)
    IN  CASE ins.op = "NewDense" ->
                 New(NewDense(WithData(h, A[3]), A[1], A[2], DataSlice(h, A[3])))
          [] ins.op = "NewVecDense" ->
                 LET r == NewVecDense(WithData(h, A[2]), A[1], DataSlice(h, A[2]))
                 IN  Assigned(r.err, r.h, e, ins.dst, r.vec)
          [] ins.op = "NewSymDense" ->
                 New(NewSymDense(WithData(h, A[2]), A[1], DataSlice(h, A[2])))
          [] ins.op = "NewDiagDense" ->
                 New(NewDiagDense(WithData(h, A[2]), A[1], DataSlice(h, A[2])))
          [] ins.op = "NewTriDense" ->
                 New(NewTriDense(WithData(h, A[3]), A[1], A[2], DataSlice(h, A[3])))
          [] ins.op = "var" -> Assigned(NoErr, h, e, ins.dst, EmptyDense)
          [] ins.op = "defer" -> Assigned(NoErr, h, e, "", 0)
          [] ins.op = "Set" -> Wrote(Set(h, X(1), A[2], A[3], A[4]))
          [] ins.op = "SetVec" -> Wrote(SetVec(h, X(1), A[2], A[3]))
          [] ins.op = "SetSym" -> Wrote(SetSym(h, X(1), A[2], A[3], A[4]))
          [] ins.op = "SetDiag" -> Wrote(SetDiag(h, X(1), A[2], A[3]))
          [] ins.op = "SetTri" -> Wrote(SetTri(h, X(1), A[2], A[3], A[4]))
          [] ins.op = "T" -> Assigned(NoErr, h, e, ins.dst, T(X(1)))
          [] ins.op = "DiagView" -> Assigned(NoErr, h, e, ins.dst, DiagView(X(1)))
          [] ins.op = "SliceVec" ->
                 LET r == SliceVec(h, X(1), A[2], A[3])
                 IN  Assigned(r.err, r.h, e, ins.dst, r.vec)
          [] ins.op = "Add" -> Receiver(Add(h, X(1), X(2), X(3)))
          [] ins.op = "Mul" -> Receiver(Mul(h, X(1), X(2), X(3)))
          [] ins.op = "MulElem" -> Receiver(MulElem(h, X(1), X(2), X(3)))
          [] ins.op = "AddVec" -> Receiver(AddVec(h, X(1), X(2), X(3)))
          [] ins.op = "SubVec" -> Receiver(SubVec(h, X(1), X(2), X(3)))
          [] ins.op = "ScaleVec" -> Receiver(ScaleVec(h, X(1), A[2], X(3)))
          [] ins.op = "MulElemVec" -> Receiver(MulElemVec(h, X(1), X(2), X(3)))
          [] ins.op = "MulVec" -> Receiver(MulVec(h, X(1), X(2), X(3)))
          [] ins.op = "Dot" -> Value(Dot(h, X(1), X(2)))
          [] ins.op = "Max" -> Value(Max(h, X(1)))
          [] ins.op = "Min" -> Value(Min(h, X(1)))
          [] ins.op = "Sum" -> Value(Sum(h, X(1)))
          [] ins.op = "Det" -> Value(Det(h, X(1)))
          [] ins.op = "Col" -> Value(Col(h, A[1], X(2)))
          [] ins.op = "Row" -> Value(Row(h, A[1], X(2)))
          [] ins.op = "At" -> Value(At(h, X(1), A[2], A[3]))
          [] ins.op = "AtVec" -> Value(AtVec(h, X(1), A[2]))
          [] ins.op = "Len" -> Assigned(NoErr, h, e, ins.dst, LenVec(X(1)))
          [] ins.op = "Cap" -> Assigned(NoErr, h, e, ins.dst, Cap(X(1)))
          [] ins.op = "Dims" -> Assigned(NoErr, h, e, ins.dst, Dims(X(1)))
          [] ins.op = "Caps" -> Assigned(NoErr, h, e, ins.dst, Caps(X(1)))
          [] ins.op = "Diag" -> Assigned(NoErr, h, e, ins.dst, Diag(X(1)))
          [] ins.op = "Println" -> Printed(h, e, X(1))
          [] ins.op = "Formatted" -> Printed(h, e, Elements(h, X(1)))
          [] ins.op = "Excerpt" -> Printed(h, e, Excerpt(h, X(1), A[2]))

(***************************************************************************)
(* A run of main.  The two calls that main keeps in comments because they  *)
(* fail are part of a run when they are enabled.                           *)
(***************************************************************************)
\* the line of fmt.Println(err) in the deferred handler
HandlerLine == 383

Enabled == {"none", "SliceVec", "SetTri"}

InitRun ==
    /\ uncommented \in Enabled
    /\ pc = 1 /\ env = <<>> /\ out = <<>>
    /\ deferred = FALSE /\ status = "running" /\ handled = 0
    /\ heap = <<>>
    /\ ObjUnused /\ AlgUnused
    /\ call = Untouched
    /\ err = NoErr

\* the next statement of main is executed; a panic stops the run there
Step ==
    /\ status = "running" /\ pc <= Len(Prog(uncommented))
    /\ LET ins == Prog(uncommented)[pc]
           r == Exec(heap, env, ins)
       IN  /\ heap' = r.h
           /\ env' = r.e
           /\ err' = r.err
           /\ call' = [line |-> ins.line, op |-> ins.op, operands |-> ins.args]
           /\ out' = IF r.prints THEN Append(out, [line |-> ins.line, text |-> r.text]) ELSE out
           /\ deferred' = (deferred \/ ins.op = "defer")
           /\ pc' = IF r.err = NoErr THEN pc + 1 ELSE pc
           /\ status' = IF r.err = NoErr THEN "running" ELSE "panicking"
    /\ UNCHANGED <<handled, uncommented, objVars, algVars>>

\* a panic unwinds main: the deferred handler, if registered, recovers the
\* error and prints it, and main returns; otherwise the program crashes
Unwind ==
    /\ status = "panicking"
    /\ IF deferred
       THEN /\ handled' = handled + 1
            /\ out' = Append(out, [line |-> HandlerLine, text |-> err])
            /\ status' = "returned"
       ELSE /\ status' = "crashed"
            /\ UNCHANGED <<handled, out>>
    /\ UNCHANGED <<pc, env, deferred, uncommented, heap, call, err, objVars, algVars>>

\* main reaches its end: the deferred handler runs, recover() returns nil
\* and nothing is printed
Return ==
    /\ status = "running" /\ pc = Len(Prog(uncommented)) + 1
    /\ handled' = IF deferred THEN handled + 1 ELSE handled
    /\ status' = "returned"
    /\ UNCHANGED <<pc, env, out, deferred, uncommented, heap, call, err, objVars, algVars>>

NextRun == Step \/ Unwind \/ Return

SpecRun == InitRun /\ [][NextRun]_vars

\* main moves on: a step of a run that is executing or unwinding, seen on
\* pc and status alone (every step of NextRun changes one of the two, and
\* one is possible exactly while main is running or panicking)
Advance ==
    /\ status \in {"running", "panicking"}
    /\ pc' \in {pc, pc + 1}
    /\ status' \in {"running", "panicking", "returned", "crashed"}

\* the Go runtime keeps executing main until it returns or crashes
FairRun == SpecRun /\ WF_<<pc, status>>(Advance)

\* the lines of out written by the statement at the given source line
PrintedAt(line) == {k \in 1..Len(out) : out[k].line = line}

\* the statement at the given source line has just been executed
JustRan(line) == status = "running" /\ pc > 1 /\ call.op # "new" /\ call.line = line

\* what main prints for Max(v), Min(v), Sum(v), Min(dense4), Max(dense4), Sum(dense4)
ReducedValues == (613 :> 9) @@ (614 :> 0) @@ (621 :> 14) @@ (718 :> 1) @@ (722 :> 9) @@ (726 :> 45)

\* C21: Max, Min and Sum reduce over all elements of their argument: the
\* maximum and the minimum are values of elements that bound every element
\* from above and from below, the sum adds every element once; main prints
\* 9, 0, 14 for v = [1,0,4,0,9] and 1, 9, 45 for dense4 = [[1,2,3],[4,5,6],[7,8,9]].
ReduceOverAllElements ==
    /\ \A line \in DOMAIN ReducedValues : \A k \in PrintedAt(line) :
           out[k].text = ReducedValues[line]
    /\ (call.op \in {"Max", "Min", "Sum"} /\ err = NoErr) =>
           LET a == env[call.operands[1]]
               E == Elements(heap, a)
               I == DOMAIN E
               J == DOMAIN E[0]
               r == env["_n"]
           IN  CASE call.op = "Max" ->
                        (\E i \in I, j \in J : E[i][j] = r) /\ (\A i \in I, j \in J : E[i][j] <= r)
                 [] call.op = "Min" ->
                        (\E i \in I, j \in J : E[i][j] = r) /\ (\A i \in I, j \in J : r <= E[i][j])
                 [] call.op = "Sum" ->
                        r = SumTo([k \in 0..(Cardinality(I) * Cardinality(J) - 1) |->
                                      E[k \div Cardinality(J)][k % Cardinality(J)]],
                                  Cardinality(I) * Cardinality(J))

\* main has printed all six reductions
ReducedInMain ==
    /\ \A line \in DOMAIN ReducedValues : PrintedAt(line) # {}
    /\ JustRan(726)
    /\ Elements(heap, env["dense4"]) = [i \in 0..2 |-> [j \in 0..2 |-> 3 * i + j + 1]]
    /\ Elements(heap, env["v"]) = [i \in 0..4 |-> [j \in {0} |-> (<<1, 0, 4, 0, 9>>)[i + 1]]]

\* one of the two calls main keeps in comments has just been made
OffendingCall == call.op # "new" /\ call.line \in {386, 922}

VHoldsRampWhenViewed ==
    /\ (JustRan(316) \/ JustRan(358)) =>
           Elements(heap, env["v"]) = [i \in 0..(VecLen - 1) |-> [j \in {0} |-> i + 1]]
    /\ \A k \in PrintedAt(317) : out[k].text = [i \in {0} |-> [j \in 0..(VecLen - 1) |-> j + 1]]
    /\ \A k \in PrintedAt(359) : out[k].text = [i \in 0..(VecLen - 2) |-> [j \in {0} |-> i + 1]]

\* the n x 1 matrix that a vector with the given elements reads as
Column(elems) == [i \in 0..(Len(elems) - 1) |-> [j \in {0} |-> elems[i + 1]]]

\* C25: MulVec computes every element of the product from the values its
\* operands held before the call, also when the receiver is the vector
\* operand: v5.MulVec(m5, v5) at line 591, with v5 = [2,3,4] and
\* m5 = [[0,-1,0],[1,0,0],[0,0,1]], leaves v5 = [-3,2,4].
MulVecFromValuesBefore ==
    [][(call'.op = "MulVec" /\ pc' = pc + 1) =>
           LET a == env[call'.operands[2]]
               b == env[call'.operands[3]]
               r == env'[call'.operands[1]]
           IN  /\ LenVec(r) = Dims(a)[1]
               /\ \A i \in 0..(Dims(a)[1] - 1) :
                      AtVec(heap', r, i).val =
                          SumTo([k \in 0..(Dims(a)[2] - 1) |->
                                    At(heap, a, i, k).val * AtVec(heap, b, k).val],
                                Dims(a)[2])
               /\ call'.line = 591 =>
                      /\ Elements(heap, a) = Matrix(<<<<0, -1, 0>>, <<1, 0, 0>>, <<0, 0, 1>>>>)
                      /\ Elements(heap, b) = Column(<<2, 3, 4>>)
                      /\ Elements(heap', r) = Column(<<-3, 2, 4>>)]_<<pc, status>>

\* v5.MulVec(m5, v5) has run with the receiver as its own operand
MulVecAliased ==
    /\ JustRan(591) /\ call.op = "MulVec" /\ err = NoErr
    /\ call.operands[1] = call.operands[3]
    /\ Elements(heap, env["v5"]) = Column(<<-3, 2, 4>>)

\* the operations of main that store their result in the receiver
ReceiverOps == {"Add", "Mul", "MulElem", "AddVec", "SubVec", "ScaleVec", "MulElemVec", "MulVec"}

\* the call c of main made on heap h and variables e, with a fresh empty
\* receiver in place of its own
OnFresh(c, h, e) ==
    LET A == c.operands
    IN  CASE c.op = "Add" -> Add(h, EmptyDense, e[A[2]], e[A[3]])
          [] c.op = "Mul" -> Mul(h, EmptyDense, e[A[2]], e[A[3]])
          [] c.op = "MulElem" -> MulElem(h, EmptyDense, e[A[2]], e[A[3]])
          [] c.op = "AddVec" -> AddVec(h, EmptyVec, e[A[2]], e[A[3]])
          [] c.op = "SubVec" -> SubVec(h, EmptyVec, e[A[2]], e[A[3]])
          [] c.op = "ScaleVec" -> ScaleVec(h, EmptyVec, A[2], e[A[3]])
          [] c.op = "MulElemVec" -> MulElemVec(h, EmptyVec, e[A[2]], e[A[3]])
          [] c.op = "MulVec" -> MulVec(h, EmptyVec, e[A[2]], e[A[3]])

\* what v holds after lines 508, 519, 532, 546 and 560
VSequence ==
    (508 :> <<1, 0, 2, 0, 3>>) @@ (519 :> <<2, 0, 4, 0, 6>>) @@ (532 :> <<-1, 0, -2, 0, -3>>)
        @@ (546 :> <<10, 0, 20, 0, 30>>) @@ (560 :> <<1, 0, 4, 0, 9>>)

\* C26: what a successful operation leaves in its receiver depends on the
\* operands only: it is what the same call leaves in a fresh empty receiver.
\* The reused receiver v holds in turn [1,0,2,0,3], [2,0,4,0,6],
\* [-1,0,-2,0,-3], [10,0,20,0,30], [1,0,4,0,9], and the receivers declared
\* empty (var c, d, e mat.Dense) take the shape of the result.
ResultFromOperandsOnly ==
    /\ [](\A line \in DOMAIN VSequence :
              JustRan(line) => Elements(heap, env["v"]) = Column(VSequence[line]))
    /\ [](/\ JustRan(203) => Dims(env["c"]) = <<4, 3>>
          /\ JustRan(227) => Dims(env["d"]) = <<3, 3>>
          /\ JustRan(243) => Dims(env["e"]) = <<4, 3>>)
    /\ [][(call'.op \in ReceiverOps /\ pc' = pc + 1) =>
              LET fresh == OnFresh(call', heap, env)
                  r == env'[call'.operands[1]]
              IN  /\ fresh.err = NoErr
                  /\ Dims(r) = Dims(fresh.m)
                  /\ Elements(heap', r) = Elements(fresh.h, fresh.m)]_<<pc, status>>

\* the reused receiver v has been through all five operations, and c has
\* been sized by c.Add(m3, m3)
ReceiverReused ==
    /\ JustRan(560) /\ call.op = "MulElemVec"
    /\ Elements(heap, env["v"]) = Column(<<1, 0, 4, 0, 9>>)
    /\ \A line \in {509, 520, 533, 547} : PrintedAt(line) # {}
    /\ Dims(env["c"]) = <<4, 3>>

\* C27: main as written (both failing calls left in comments) terminates:
\* its statements run once, in order, to the last one, no call fails, and at
\* the end the deferred handler runs exactly once, recovers nothing and
\* prints nothing.
MainTerminates ==
    /\ [](uncommented = "none" =>
              (/\ err = NoErr /\ status \in {"running", "returned"}
               /\ PrintedAt(HandlerLine) = {}
               /\ handled = IF status = "returned" THEN 1 ELSE 0))
    /\ [][uncommented = "none" =>
              \/ pc' = pc + 1 /\ status' = "running"
              \/ pc' = pc /\ pc = Len(Prog("none")) + 1 /\ status' = "returned"]_<<pc, status>>
    /\ (uncommented = "none") ~> (status = "returned" /\ pc = Len(Prog("none")) + 1)

\* main as written has returned after its last statement
MainReturned ==
    /\ uncommented = "none" /\ status = "returned" /\ handled = 1 /\ deferred
    /\ pc = Len(Prog("none")) + 1
    /\ call.line = 930 /\ PrintedAt(930) # {} /\ PrintedAt(HandlerLine) = {}

(***************************************************************************)
(* The calls of main that can fail, each on the objects of its own family: *)
(* the vector v and its view w, the triangular t3, the diagonal d3, and    *)
(* the operands and receivers of the algebra operations.                   *)
(***************************************************************************)
InitLib == InitVec \/ InitTri \/ InitDiag \/ InitAlg

\* v.AtVec(i)
AtVecV(i) ==
    LET r == AtVec(heap, v, i)
    IN  /\ res' = r.val
        /\ err' = r.err
        /\ call' = [op |-> "v.AtVec", i |-> i, k |-> 0]
        /\ UNCHANGED <<mainVars, objVars, heap, inp, m2, m3, rcv, nops>>

\* the vector calls are made until one has written or read an element
NextLib ==
    \/ v # Unused /\ Written(heap) = 0 /\ call.op # "v.AtVec" /\ NextVec
    \/ v # Unused /\ Written(heap) = 0 /\ call.op # "v.AtVec" /\ \E i \in SetIndices : AtVecV(i)
    \/ t3 # Unused /\ NextTri
    \/ d3 # Unused /\ NextDiag
    \/ m2 # Unused /\ NextAlg

SpecLib == InitLib /\ [][NextLib]_vars

\* the objects built so far
Objects(o) == {x \in {o[1], o[2], o[3], o[4], o[5], o[6], o[7]} : x # Unused}

====
